---- MODULE Spec2Model ----
(***************************************************************************)
(* Model of the rendering-and-capture engine of music-waves-visualizer:    *)
(*   - the WebGL draw loop        (lib/WebGLRenderer.ts)                    *)
(*   - the Canvas 2D draw loop    (lib/Canvas.ts, the version that owns     *)
(*                                 stopCanvas2DAnimation)                   *)
(*   - the WebCodecs encoder      (lib/WebCodecsEncoder.ts)                 *)
(*   - the MediaRecorder encoder  (lib/QuickVideoEncoder.ts)                *)
(*   - the page recorder          (pages/index.tsx, onRecordMovie)          *)
(* The browser is single threaded: every action below is one task of the   *)
(* event loop (an API call, one animation-frame callback, one timer, one   *)
(* event handler, or one promise continuation).                            *)
(***************************************************************************)
EXTENDS Integers, Sequences, FiniteSets, TLC

----------------------------------------------------------------------------
(* Bounds of the model *)

NumCanvases == 2      \* canvas elements 1..NumCanvases
NumImages == 1        \* image objects 1..NumImages, 0 is null
NumSizes == 1         \* surface sizes 1..NumSizes
MaxRaf == 4           \* requestAnimationFrame ids handed out in one run
MaxClock == 2         \* clock steps in one run
TimeStep == 500       \* milliseconds per clock step
MaxHandles == 2       \* VideoEncoder objects created in one run
MaxFrames == 2        \* encodeFrame calls in one run
MaxCalls == 2         \* finish() calls in one run
MaxSegs == 2          \* data segments a recorder emits before it is stopped
NumCacheImages == 3   \* image objects handed to the background preparation
NumDims == 2          \* surface widths and heights 1..NumDims of the preparation
MaxDim == 4           \* image and surface widths and heights 1..MaxDim of the placement
MaxCoord == 2         \* point coordinates 0, 1/2, ..., MaxCoord of the transform
MaxSurface == 3       \* surface widths and heights 1..MaxSurface of the transform
MaxBufLen == 3        \* sample buffers of length 1..MaxBufLen take every combination of values
MaxHeight == 4        \* surface heights 1..MaxHeight of the symmetric bars
MaxSettingValue == 2  \* scaleX values 1..MaxSettingValue of the sliders
MaxRecordings == 2    \* recordings started in one session of the page
MaxStackDepth == 2    \* depth 0..MaxStackDepth of the drawing-state stack when a tick starts
MaxDurationNum == 3   \* audio durations 0 .. MaxDurationNum seconds and half seconds
MaxFrameRate == 2     \* frame rates 1..MaxFrameRate frames per second
MaxSubmissions == 32  \* encodeFrame calls in one session of the key-frame runs

\* a key frame is requested every KeyFrameInterval frames
KeyFrameInterval == 30

Canvases == 1..NumCanvases
Images == 0..NumImages
Modes == {0, 3}
Analysers == {0, 1}           \* 0 is null (analyserRef.current before audio is loaded)
AdjustmentSet == {0, 1}       \* 0 is undefined, 1 is a non-identity adjustment record
Sizes == 1..NumSizes

None == <<>>
Some(x) == <<x>>

\* the argument tuples of a start call tried by the model: a base tuple, one
\* per other canvas, one with image, mode and adjustments changed, one without analyser
Param(c, i, m, a, adj) ==
  [canvas |-> c, imageCtx |-> i, mode |-> m, analyser |-> a, adjustments |-> adj]

Params == {Param(c, 0, 0, 1, 0) : c \in Canvases}
          \cup {Param(1, i, 3, 1, 1) : i \in Images \ {0}}
          \cup {Param(1, 0, 0, 0, 0)}

----------------------------------------------------------------------------
VARIABLES
  now,                \* performance.now()
  rafQueue,           \* pending requestAnimationFrame callbacks
  nextRafId,          \* next id requestAnimationFrame returns
  canvasKind,         \* context type each canvas element is bound to
  canvasSize,         \* width x height of each canvas element
  (* WebGLRenderer.ts *)
  glContext, glFpsCounter, glFpsLastTime, glCurrentFPS,
  glAnimationFrameId, isAnimating, latest,
  (* Canvas.ts *)
  fpsCounter, fpsLastTime, currentFPS, animationFrameId, imageCache,
  (* observation of the run *)
  lastOp, painted, glStopped, c2dStopped,
  (* pages/index.tsx *)
  rendererType,       \* the renderer the page has selected
  (* who drives the encode session of this run *)
  scenario,
  (* WebCodecsEncoder.ts: one WebCodecsVideoEncoder and the host's VideoEncoder objects *)
  wcSupported,        \* isWebCodecsSupported()
  encoder,            \* this.encoder: 0 is null, else a VideoEncoder handle
  veState,            \* state of each VideoEncoder handle
  vePending,          \* frames each handle has accepted and not yet output
  veEmitted,          \* number of chunks each handle has output
  chunks, frameCount, totalFrames,
  openFrames,         \* VideoFrame objects constructed and not closed
  wcInitWaiting,      \* init() calls awaiting isConfigSupported
  wcFinish,           \* finish() calls: awaiting flush, or settled
  wcEmitted,          \* chunks the output callback delivered since construction / cleanup
  wcSubmitted,        \* encodeFrame calls made so far
  wcLast,             \* outcome of the last init / encodeFrame call
  (* encodeVideoWithAudio *)
  drvPc, drvI, drvTotal, drvError, drvCall,
  (* the host's MediaRecorder of the session *)
  recState,           \* "none" before construction, then "recording" / "inactive"
  recQueue,           \* events the host has queued for the recorder's handlers
  recDelivered,       \* data segments delivered to the dataavailable handler
  recSegs,            \* segments produced so far
  recStopCalls,       \* stop() calls on the recorder
  recStopInactive,    \* stop() calls made while the recorder was inactive
  (* QuickVideoEncoder.ts: one QuickVideoEncoder and its encodeWithCanvas2D call *)
  cancelled, mediaRecorder, recordedChunks,
  qPc, qPromise, qTimer, currentFrame, qTotalFrames, qDrawn,
  qCancelEarly,       \* cancel() was called before the stop event was handled
  qStopHandled, qErrorHandled,
  (* pages/index.tsx: onRecordMovie *)
  pageStarted, pageEnded, recordedBlobs, webmBlob,
  (* observation of the background preparations of a run *)
  prepPrev,           \* the preparation before the last one, if nothing came between
  prepLast,           \* the last preparation: inputs, hit or composite, resource returned
  (* one call of a pure function of the renderers *)
  fnIn,               \* the function and its arguments
  fnOut,              \* its result, once it has been applied
  (* pages/index.tsx: display adjustments *)
  settings,           \* mode, resolution, adjustments in effect, localStorage
  (* pages/index.tsx: draw loop, playback and recording *)
  page                \* state of the component, its source, recorders and timers

hostVars == <<now, rafQueue, nextRafId, canvasKind, canvasSize>>
glFpsVars == <<glFpsCounter, glFpsLastTime, glCurrentFPS>>
glVars == <<glContext, glFpsCounter, glFpsLastTime, glCurrentFPS,
            glAnimationFrameId, isAnimating, latest>>
c2dFpsVars == <<fpsCounter, fpsLastTime, currentFPS>>
c2dVars == <<fpsCounter, fpsLastTime, currentFPS, animationFrameId, imageCache>>
obsVars == <<lastOp, painted, glStopped, c2dStopped>>
loopVars == <<hostVars, glVars, c2dVars, obsVars>>

----------------------------------------------------------------------------
(* Host: requestAnimationFrame / cancelAnimationFrame *)

GlCallback(id) == [id |-> id, kind |-> "webgl", args |-> None]
C2dCallback(id, p) == [id |-> id, kind |-> "canvas2d", args |-> Some(p)]

CancelAnimationFrame(q, id) == {cb \in q : cb.id # id}

PendingOf(kind) == {cb \in rafQueue : cb.kind = kind}

\* Math.round of the non-negative rational n / d
RoundDiv(n, d) == (2 * n + d) \div (2 * d)

----------------------------------------------------------------------------
(* WebGLRenderer.ts *)

NullLatest == [canvas |-> 0, imageCtx |-> 0, mode |-> 0, analyser |-> 0, adjustments |-> 0]

\* image.src, image.width, image.height: an image element is loaded once and then
\* handed to the renderer; two elements may carry the same source (the same data URL)
ImageSrc(image) == (image + 1) \div 2
ImageWidth(image) == 2 * ImageSrc(image)
ImageHeight(image) == ImageSrc(image)

\* what the offscreen canvas holds after fillRect and drawImage(image, ...), and what
\* it holds when no 2D context was obtained
Composite(image, size) ==
  [kind |-> "composite", src |-> ImageSrc(image), width |-> ImageWidth(image),
   height |-> ImageHeight(image), size |-> size]
BlankCanvas(size) == [kind |-> "blank", src |-> 0, width |-> 0, height |-> 0, size |-> size]

\* initWebGL: getContext('webgl2') || getContext('webgl'), then shaders, programs, buffers
InitWebGLResult(canvas, glOk) ==
  IF canvasKind[canvas] = "2d" \/ glOk # "ok"
    THEN None
    ELSE Some([canvas |-> canvas, imageTexture |-> FALSE, texture |-> None,
               cacheImage |-> 0, cacheSize |-> 0])

InitWebGLKind(canvas, glOk) ==
  IF canvasKind[canvas] = "2d" \/ glOk = "nogl"
    THEN canvasKind
    ELSE [canvasKind EXCEPT ![canvas] = "webgl"]

\* prepareImageTexture: the cache check
TextureCacheValid(ctx, image, size) ==
  ctx.cacheImage = image /\ ctx.cacheSize = size /\ ctx.imageTexture

\* prepareImageTexture: cache check, else composite + upload and cache update;
\* tempOk: the temporary canvas gives a 2D context, texOk: gl.createTexture() succeeds
PrepareImageTextureWith(ctx, image, size, tempOk, texOk) ==
  IF TextureCacheValid(ctx, image, size)
    THEN ctx
    ELSE [ctx EXCEPT !.imageTexture = ctx.imageTexture \/ texOk,
                     !.texture = IF ctx.imageTexture \/ texOk
                                   THEN Some(IF tempOk THEN Composite(image, size)
                                                       ELSE BlankCanvas(size))
                                   ELSE None,
                     !.cacheImage = image, !.cacheSize = size]

\* prepareImageTexture in the draw loop, where canvases and textures are available
PrepareImageTexture(ctx, image, size) == PrepareImageTextureWith(ctx, image, size, TRUE, TRUE)

\* drawBackgroundWebGL: clear, and with an image prepare and draw the texture
DrawBackgroundWebGL(ctx, canvas, image, sizes) ==
  IF image = 0 THEN ctx ELSE PrepareImageTexture(ctx, image, sizes[canvas])

\* FPS measurement at the end of a frame (renderFrame and drawBars alike): the frame
\* is counted, and once 1000 ms have passed since the last report the rate is
\* reported, the counter reset and the window restarted; <<counter, lastTime, fps>>
FpsAfterFrameKeepCount(counter, lastTime, fps, time) ==
  IF time - lastTime >= 1000
    THEN <<counter + 1, time, RoundDiv((counter + 1) * 1000, time - lastTime)>>
    ELSE <<counter + 1, lastTime, fps>>
FpsAfterFrame(counter, lastTime, fps, time) ==
  IF time - lastTime >= 1000
    THEN <<0, time, RoundDiv((counter + 1) * 1000, time - lastTime)>>
    ELSE <<counter + 1, lastTime, fps>>

\* renderFrame, run with the given values of latest*, glContext and isAnimating
RenderFrame(lat, ctxOpt, anim, kinds, queue, opName) ==
  IF lat.canvas = 0 \/ lat.analyser = 0 \/ ctxOpt = None
    THEN /\ isAnimating' = FALSE
         /\ glContext' = ctxOpt
         /\ rafQueue' = queue
         /\ UNCHANGED <<glFpsVars, glAnimationFrameId, nextRafId, painted>>
         /\ lastOp' = [op |-> opName, paint |-> FALSE, idle |-> FALSE]
    ELSE /\ isAnimating' = anim
         /\ glContext' = Some(DrawBackgroundWebGL(ctxOpt[1], lat.canvas, lat.imageCtx, canvasSize))
         /\ painted' = [backend |-> "webgl", params |-> lat, ctxCanvas |-> ctxOpt[1].canvas]
         /\ glFpsCounter' = FpsAfterFrame(glFpsCounter, glFpsLastTime, glCurrentFPS, now)[1]
         /\ glFpsLastTime' = FpsAfterFrame(glFpsCounter, glFpsLastTime, glCurrentFPS, now)[2]
         /\ glCurrentFPS' = FpsAfterFrame(glFpsCounter, glFpsLastTime, glCurrentFPS, now)[3]
         /\ glAnimationFrameId' = nextRafId
         /\ rafQueue' = queue \cup {GlCallback(nextRafId)}
         /\ nextRafId' = nextRafId + 1
         /\ lastOp' = [op |-> opName, paint |-> TRUE, idle |-> FALSE]

\* drawBarsWebGL: "already animating, update the parameters only"
AlreadyAnimatingNever(anim) == FALSE
AlreadyAnimating(anim) == anim

\* drawBarsWebGL(canvas, imageCtx, mode, analyser, adjustments)
DrawBarsWebGL(p, glOk) ==
  /\ nextRafId <= MaxRaf
  /\ latest' = p
  /\ glStopped' = FALSE
  /\ UNCHANGED <<now, canvasSize, c2dVars, c2dStopped>>
  /\ IF AlreadyAnimating(isAnimating)
       THEN /\ UNCHANGED <<glContext, glFpsVars, glAnimationFrameId, isAnimating,
                           rafQueue, nextRafId, canvasKind, painted>>
            /\ lastOp' = [op |-> "drawBarsWebGL", paint |-> FALSE, idle |-> FALSE]
       ELSE LET reinit == glContext = None \/ glContext[1].canvas # p.canvas
                ctxOpt == IF reinit THEN InitWebGLResult(p.canvas, glOk) ELSE glContext
            IN /\ canvasKind' = IF reinit THEN InitWebGLKind(p.canvas, glOk) ELSE canvasKind
               /\ IF ctxOpt = None
                    THEN /\ isAnimating' = FALSE
                         /\ glContext' = None
                         /\ UNCHANGED <<glFpsVars, glAnimationFrameId, rafQueue,
                                        nextRafId, painted>>
                         /\ lastOp' = [op |-> "drawBarsWebGL", paint |-> FALSE, idle |-> FALSE]
                    ELSE RenderFrame(p, ctxOpt, TRUE, canvasKind', rafQueue, "drawBarsWebGL")

\* an animation-frame callback of the WebGL loop fires
TickWebGL ==
  /\ nextRafId <= MaxRaf
  /\ \E cb \in PendingOf("webgl") :
       RenderFrame(latest, glContext, isAnimating, canvasKind, rafQueue \ {cb}, "tickWebGL")
  /\ UNCHANGED <<now, canvasKind, canvasSize, latest, c2dVars, glStopped, c2dStopped>>

\* an animation-frame callback of the WebGL loop fires and a call of the mode drawing
\* throws: renderFrame has no try/catch, the rest of the frame (FPS count, scheduling
\* of the next frame) is not run and the exception leaves the callback
TickWebGLThrows ==
  /\ \E cb \in PendingOf("webgl") :
       /\ latest.canvas # 0 /\ latest.analyser # 0 /\ glContext # None
       /\ rafQueue' = rafQueue \ {cb}
       /\ glContext' = Some(DrawBackgroundWebGL(glContext[1], latest.canvas,
                                                latest.imageCtx, canvasSize))
  /\ lastOp' = [op |-> "tickWebGLThrew", paint |-> FALSE, idle |-> FALSE]
  /\ UNCHANGED <<now, nextRafId, canvasKind, canvasSize, glFpsVars, glAnimationFrameId,
                 isAnimating, latest, c2dVars, painted, glStopped, c2dStopped>>

\* the WebGL loop is stopped: not animating and no renderFrame callback pending
GLIdle == ~isAnimating /\ PendingOf("webgl") = {}

\* stopWebGLAnimation: the values it leaves in animationFrameId and in the FPS state
StopWebGLAnimationId(id) == 0
StopWebGLAnimationFpsReset(fps) == <<0, now, 0>>
StopWebGLAnimationFps(fps) == fps

StopWebGLAnimation ==
  /\ rafQueue' = IF glAnimationFrameId # 0
                   THEN CancelAnimationFrame(rafQueue, glAnimationFrameId)
                   ELSE rafQueue
  /\ glAnimationFrameId' = StopWebGLAnimationId(glAnimationFrameId)
  /\ isAnimating' = FALSE
  /\ glFpsCounter' = StopWebGLAnimationFps(<<glFpsCounter, glFpsLastTime, glCurrentFPS>>)[1]
  /\ glFpsLastTime' = StopWebGLAnimationFps(<<glFpsCounter, glFpsLastTime, glCurrentFPS>>)[2]
  /\ glCurrentFPS' = StopWebGLAnimationFps(<<glFpsCounter, glFpsLastTime, glCurrentFPS>>)[3]
  /\ glStopped' = TRUE
  /\ lastOp' = [op |-> "stopWebGLAnimation", paint |-> FALSE, idle |-> GLIdle]
  /\ UNCHANGED <<now, nextRafId, canvasKind, canvasSize, glContext, latest,
                 c2dVars, painted, c2dStopped>>

\* clearWebGLImageCache: the texture is deleted, the handle set to null and the cache
\* entry emptied
ClearedWebGLImageCacheKeepsHandle(ctxOpt) ==
  IF ctxOpt = None THEN None ELSE Some([ctxOpt[1] EXCEPT !.texture = None])
ClearedWebGLImageCache(ctxOpt) ==
  IF ctxOpt = None THEN None
  ELSE Some([ctxOpt[1] EXCEPT !.imageTexture = FALSE, !.texture = None,
                              !.cacheImage = 0, !.cacheSize = 0])

ClearWebGLImageCache ==
  /\ glContext' = ClearedWebGLImageCache(glContext)
  /\ lastOp' = [op |-> "clearWebGLImageCache", paint |-> FALSE, idle |-> FALSE]
  /\ UNCHANGED <<hostVars, glFpsVars, glAnimationFrameId, isAnimating, latest,
                 c2dVars, painted, glStopped, c2dStopped>>

\* cleanupWebGL
CleanupWebGL ==
  /\ rafQueue' = IF glAnimationFrameId # 0
                   THEN CancelAnimationFrame(rafQueue, glAnimationFrameId)
                   ELSE rafQueue
  /\ glAnimationFrameId' = 0
  /\ isAnimating' = FALSE
  /\ glContext' = None
  /\ glFpsCounter' = 0
  /\ glFpsLastTime' = now
  /\ glCurrentFPS' = 0
  /\ lastOp' = [op |-> "cleanupWebGL", paint |-> FALSE, idle |-> FALSE]
  /\ UNCHANGED <<now, nextRafId, canvasKind, canvasSize, latest,
                 c2dVars, painted, glStopped, c2dStopped>>

----------------------------------------------------------------------------
(* Canvas.ts *)

\* getImageHash: src, image size and surface size
GetImageHashOfSize(image, size) == <<0, 0, 0, size>>
GetImageHash(image, size) == <<ImageSrc(image), ImageWidth(image), ImageHeight(image), size>>

\* drawImageToOffscreen: the cache check
OffscreenCacheNever(cache, image, size) == FALSE
OffscreenCacheValid(cache, image, size) ==
  /\ cache # None
  /\ cache[1].imageHash = GetImageHash(image, size)
  /\ cache[1].canvasSize = size

\* drawImageToOffscreen: the cache it leaves; offOk: the offscreen canvas gives a 2D context
DrawImageToOffscreen(cache, image, size, offOk) ==
  IF OffscreenCacheValid(cache, image, size)
    THEN cache
    ELSE IF ~offOk THEN cache
    ELSE Some([canvas |-> Composite(image, size),
               imageHash |-> GetImageHash(image, size), canvasSize |-> size])

\* drawImageToOffscreen: the canvas it returns
OffscreenCanvasOf(cache, image, size, offOk) ==
  IF OffscreenCacheValid(cache, image, size)
    THEN cache[1].canvas
    ELSE IF ~offOk THEN BlankCanvas(size)
    ELSE Composite(image, size)

\* canvas.getContext("2d") of drawBars
GetContext2D(canvas) == canvasKind[canvas] # "webgl"

\* the guard drawBars applies before it paints and schedules (it has none)
DrawBarsMaySchedule(queue) == TRUE

\* drawBars(canvas, imageCtx, mode, analyser, adjustments), called or re-run by its callback
DrawBars(p, queue, offOk, opName) ==
  /\ DrawBarsMaySchedule(queue)
  /\ animationFrameId' = nextRafId
  /\ rafQueue' = queue \cup {C2dCallback(nextRafId, p)}
  /\ nextRafId' = nextRafId + 1
  /\ IF ~GetContext2D(p.canvas)
       THEN /\ UNCHANGED <<canvasKind, imageCache, c2dFpsVars, painted>>
            /\ lastOp' = [op |-> opName, paint |-> FALSE, idle |-> FALSE]
       ELSE /\ canvasKind' = [canvasKind EXCEPT ![p.canvas] = "2d"]
            /\ imageCache' = IF p.imageCtx # 0
                               THEN DrawImageToOffscreen(imageCache, p.imageCtx,
                                                         canvasSize[p.canvas], offOk)
                               ELSE imageCache
            /\ painted' = [backend |-> "canvas2d", params |-> p, ctxCanvas |-> p.canvas]
            /\ lastOp' = [op |-> opName, paint |-> TRUE, idle |-> FALSE]
            /\ IF p.analyser = 0
                 THEN UNCHANGED c2dFpsVars
                 ELSE /\ fpsCounter' = FpsAfterFrame(fpsCounter, fpsLastTime, currentFPS, now)[1]
                      /\ fpsLastTime' = FpsAfterFrame(fpsCounter, fpsLastTime, currentFPS, now)[2]
                      /\ currentFPS' = FpsAfterFrame(fpsCounter, fpsLastTime, currentFPS, now)[3]

CallDrawBars(p, offOk) ==
  /\ nextRafId <= MaxRaf
  /\ DrawBars(p, rafQueue, offOk, "drawBars")
  /\ c2dStopped' = FALSE
  /\ UNCHANGED <<now, canvasSize, glVars, glStopped>>

\* an animation-frame callback of the Canvas 2D loop fires and re-runs drawBars
TickCanvas2D(offOk) ==
  /\ nextRafId <= MaxRaf
  /\ \E cb \in PendingOf("canvas2d") :
       DrawBars(cb.args[1], rafQueue \ {cb}, offOk, "tickCanvas2D")
  /\ UNCHANGED <<now, canvasSize, glVars, glStopped, c2dStopped>>

\* an animation-frame callback of the Canvas 2D loop fires and a call of the mode
\* drawing throws: drawBars has no try/catch, the next frame is not requested and the
\* exception leaves the callback
TickCanvas2DThrows(offOk) ==
  /\ \E cb \in PendingOf("canvas2d") :
       LET p == cb.args[1] IN
       /\ GetContext2D(p.canvas) /\ p.analyser # 0
       /\ rafQueue' = rafQueue \ {cb}
       /\ canvasKind' = [canvasKind EXCEPT ![p.canvas] = "2d"]
       /\ imageCache' = IF p.imageCtx # 0
                          THEN DrawImageToOffscreen(imageCache, p.imageCtx,
                                                    canvasSize[p.canvas], offOk)
                          ELSE imageCache
  /\ lastOp' = [op |-> "tickCanvas2DThrew", paint |-> FALSE, idle |-> FALSE]
  /\ UNCHANGED <<now, nextRafId, canvasSize, glVars, c2dFpsVars, animationFrameId,
                 painted, glStopped, c2dStopped>>

\* the Canvas 2D loop is stopped: no drawBars callback pending
C2DIdle == PendingOf("canvas2d") = {}

\* stopCanvas2DAnimation
StopCanvas2DAnimation ==
  /\ rafQueue' = IF animationFrameId # 0
                   THEN CancelAnimationFrame(rafQueue, animationFrameId)
                   ELSE rafQueue
  /\ animationFrameId' = 0
  /\ c2dStopped' = TRUE
  /\ lastOp' = [op |-> "stopCanvas2DAnimation", paint |-> FALSE, idle |-> C2DIdle]
  /\ UNCHANGED <<now, nextRafId, canvasKind, canvasSize, glVars,
                 c2dFpsVars, imageCache, painted, glStopped>>

\* clearImageCache
ClearImageCache ==
  /\ imageCache' = None
  /\ lastOp' = [op |-> "clearImageCache", paint |-> FALSE, idle |-> FALSE]
  /\ UNCHANGED <<hostVars, glVars, c2dFpsVars, animationFrameId,
                 painted, glStopped, c2dStopped>>

\* resetFPS
ResetFPS ==
  /\ fpsCounter' = 0
  /\ fpsLastTime' = now
  /\ currentFPS' = 0
  /\ lastOp' = [op |-> "resetFPS", paint |-> FALSE, idle |-> FALSE]
  /\ UNCHANGED <<hostVars, glVars, animationFrameId, imageCache,
                 painted, glStopped, c2dStopped>>

----------------------------------------------------------------------------
(* Host time *)

AdvanceTime ==
  /\ now < MaxClock * TimeStep
  /\ now' = now + TimeStep
  /\ lastOp' = [op |-> "time", paint |-> FALSE, idle |-> FALSE]
  /\ UNCHANGED <<rafQueue, nextRafId, canvasKind, canvasSize, glVars, c2dVars,
                 painted, glStopped, c2dStopped>>

----------------------------------------------------------------------------
(* WebCodecsEncoder.ts *)

Handles == 1..MaxHandles
CallIds == 1..MaxCalls

wcVars == <<wcSupported, encoder, veState, vePending, veEmitted, chunks, frameCount,
            totalFrames, openFrames, wcInitWaiting, wcFinish, wcEmitted, wcSubmitted, wcLast>>
drvVars == <<drvPc, drvI, drvTotal, drvError, drvCall>>

NoCall == [st |-> "none", h |-> 0, need |-> 0, err |-> "", blob |-> <<>>,
           emitted |-> <<>>, epoch |-> 0]

\* number of VideoEncoder objects created so far
HandlesCreated == Cardinality({h \in Handles : veState[h] # "none"})

\* new Blob(parts): the concatenation of the parts
RECURSIVE BlobOf(_)
BlobOf(parts) == IF parts = <<>> THEN <<>> ELSE Head(parts) \o BlobOf(Tail(parts))

\* the chunk an encoded frame becomes: one byte sequence per submitted frame
ChunkOf(tag) == <<tag>>

\* handleEncodedChunk: this.chunks.push(data)
HandleEncodedChunkFront(cs, data) == <<data>> \o cs
HandleEncodedChunk(cs, data) == Append(cs, data)

\* VideoEncoder.close(): the handle is closed, its pending work dropped and its
\* pending flush promises rejected
CloseState(st, h) == [st EXCEPT ![h] = "closed"]
ClosePending(pend, st, h) == IF st[h] = "closed" THEN [pend EXCEPT ![h] = <<>>] ELSE pend
CloseFlushes(fin, st, h) ==
  [i \in CallIds |->
     IF fin[i].st = "waiting" /\ fin[i].h = h /\ st[h] = "closed"
       THEN [fin[i] EXCEPT !.st = "error", !.err = "AbortError"]
       ELSE fin[i]]

\* finish(): this.encoder.close() after the flush
FinishCloseSkipped(st, h) == st
FinishClose(st, h) == CloseState(st, h)

\* init(): up to the await of VideoEncoder.isConfigSupported. It does not look at
\* this.encoder: it also runs on an object that holds an encoder already
WcInitCall ==
  /\ wcInitWaiting = 0
  /\ IF ~wcSupported
       THEN /\ wcLast' = [op |-> "init", err |-> "WebCodecs API is not supported"]
            /\ UNCHANGED wcInitWaiting
       ELSE /\ HandlesCreated < MaxHandles
            /\ wcInitWaiting' = wcInitWaiting + 1
            /\ wcLast' = [op |-> "init", err |-> "pending"]
  /\ UNCHANGED <<wcSupported, encoder, veState, vePending, veEmitted, chunks, frameCount,
                 totalFrames, openFrames, wcFinish, wcEmitted, wcSubmitted>>

\* init(): this.encoder after the answer res of isConfigSupported; h is the handle
\* that new VideoEncoder returns. The assignment comes after the support check
EncoderAfterInitEager(enc, res, h) == h
EncoderAfterInit(enc, res, h) == IF res = "supported" THEN h ELSE enc

\* init(): from the answer of isConfigSupported on
WcInitResume(res) ==
  /\ wcInitWaiting > 0
  /\ wcInitWaiting' = wcInitWaiting - 1
  /\ encoder' = EncoderAfterInit(encoder, res, HandlesCreated + 1)
  /\ IF res = "supported"
       THEN /\ veState' = [veState EXCEPT ![HandlesCreated + 1] = "configured"]
            /\ wcLast' = [op |-> "init", err |-> ""]
       ELSE /\ wcLast' = [op |-> "init",
                          err |-> IF res = "unsupported"
                                    THEN "Encoder configuration not supported"
                                    ELSE "TypeError"]
            /\ UNCHANGED veState
  /\ UNCHANGED <<wcSupported, vePending, veEmitted, chunks, frameCount, totalFrames,
                 openFrames, wcFinish, wcEmitted, wcSubmitted>>

\* encodeFrame(canvas, timestamp); frameOk: new VideoFrame(canvas) succeeds
WcEncodeFrame(frameOk) ==
  /\ wcSubmitted < MaxFrames
  /\ wcSubmitted' = wcSubmitted + 1
  /\ IF encoder = 0
       THEN /\ wcLast' = [op |-> "encodeFrame", err |-> "Encoder not initialized"]
            /\ UNCHANGED <<vePending, frameCount, openFrames>>
       ELSE IF ~frameOk
       THEN /\ wcLast' = [op |-> "encodeFrame", err |-> "VideoFrame"]
            /\ UNCHANGED <<vePending, frameCount, openFrames>>
       ELSE IF veState[encoder] # "configured"
       THEN \* encoder.encode throws: frame.close() is not reached
            /\ wcLast' = [op |-> "encodeFrame", err |-> "InvalidStateError"]
            /\ openFrames' = openFrames + 1
            /\ UNCHANGED <<vePending, frameCount>>
       ELSE /\ vePending' = [vePending EXCEPT ![encoder] = Append(@, wcSubmitted + 1)]
            /\ frameCount' = frameCount + 1
            /\ wcLast' = [op |-> "encodeFrame", err |-> ""]
            /\ UNCHANGED openFrames
  /\ UNCHANGED <<wcSupported, encoder, veState, veEmitted, chunks, totalFrames,
                 wcInitWaiting, wcFinish, wcEmitted>>

\* setTotalFrames(total)
WcSetTotalFrames(total) ==
  /\ totalFrames' = total
  /\ UNCHANGED <<wcSupported, encoder, veState, vePending, veEmitted, chunks, frameCount,
                 openFrames, wcInitWaiting, wcFinish, wcEmitted, wcSubmitted, wcLast>>

\* the output callback of handle h delivers its next chunk
WcOutput(h) ==
  /\ veState[h] = "configured"
  /\ vePending[h] # <<>>
  /\ chunks' = HandleEncodedChunk(chunks, ChunkOf(Head(vePending[h])))
  /\ wcEmitted' = Append(wcEmitted, ChunkOf(Head(vePending[h])))
  /\ vePending' = [vePending EXCEPT ![h] = Tail(@)]
  /\ veEmitted' = [veEmitted EXCEPT ![h] = @ + 1]
  /\ UNCHANGED <<wcSupported, encoder, veState, frameCount, totalFrames, openFrames,
                 wcInitWaiting, wcFinish, wcSubmitted, wcLast>>

\* finish(), call number i: up to the await of this.encoder.flush()
WcFinishCall(i) ==
  /\ wcFinish[i].st = "none"
  /\ \A k \in CallIds : k < i => wcFinish[k].st # "none"
  /\ wcFinish' = [wcFinish EXCEPT ![i] =
        IF encoder = 0
          THEN [NoCall EXCEPT !.st = "error", !.err = "Encoder not initialized",
                              !.epoch = HandlesCreated]
        ELSE IF veState[encoder] # "configured"
          THEN [NoCall EXCEPT !.st = "error", !.err = "InvalidStateError",
                              !.h = encoder, !.epoch = HandlesCreated]
        ELSE [NoCall EXCEPT !.st = "waiting", !.h = encoder,
                            !.need = veEmitted[encoder] + Len(vePending[encoder])]]
  /\ UNCHANGED <<wcSupported, encoder, veState, vePending, veEmitted, chunks, frameCount,
                 totalFrames, openFrames, wcInitWaiting, wcEmitted, wcSubmitted, wcLast>>

\* finish(), call number i: the flush promise resolves and the rest of finish runs
WcFlushResolve(i) ==
  /\ wcFinish[i].st = "waiting"
  /\ veState[wcFinish[i].h] = "configured"
  /\ veEmitted[wcFinish[i].h] >= wcFinish[i].need
  /\ IF encoder = 0
       THEN /\ wcFinish' = [wcFinish EXCEPT ![i].st = "error", ![i].err = "TypeError",
                                            ![i].epoch = HandlesCreated]
            /\ UNCHANGED <<veState, vePending>>
       ELSE IF veState[encoder] = "closed"
       THEN /\ wcFinish' = [wcFinish EXCEPT ![i].st = "error", ![i].err = "InvalidStateError",
                                            ![i].epoch = HandlesCreated]
            /\ UNCHANGED <<veState, vePending>>
       ELSE LET st == FinishClose(veState, encoder) IN
            /\ veState' = st
            /\ vePending' = ClosePending(vePending, st, encoder)
            /\ wcFinish' = [CloseFlushes(wcFinish, st, encoder) EXCEPT
                               ![i] = [wcFinish[i] EXCEPT !.st = "ok",
                                                          !.blob = BlobOf(chunks),
                                                          !.emitted = BlobOf(wcEmitted),
                                                          !.epoch = HandlesCreated]]
  /\ UNCHANGED <<wcSupported, encoder, veEmitted, chunks, frameCount, totalFrames,
                 openFrames, wcInitWaiting, wcEmitted, wcSubmitted, wcLast>>

\* cleanup()
WcCleanup ==
  /\ LET st == IF encoder # 0 /\ veState[encoder] # "closed"
                 THEN CloseState(veState, encoder) ELSE veState
     IN /\ veState' = st
        /\ vePending' = IF encoder # 0 THEN ClosePending(vePending, st, encoder) ELSE vePending
        /\ wcFinish' = IF encoder # 0 /\ veState[encoder] # "closed"
                         THEN CloseFlushes(wcFinish, st, encoder) ELSE wcFinish
  /\ encoder' = 0
  /\ chunks' = <<>>
  /\ frameCount' = 0
  /\ wcEmitted' = <<>>
  /\ UNCHANGED <<wcSupported, veEmitted, totalFrames, openFrames, wcInitWaiting,
                 wcSubmitted, wcLast>>

\* the codec of handle h fails: the error callback runs and the host closes the handle
WcCodecError(h) ==
  /\ veState[h] = "configured"
  /\ veState' = CloseState(veState, h)
  /\ vePending' = [vePending EXCEPT ![h] = <<>>]
  /\ wcFinish' = CloseFlushes(wcFinish, veState', h)
  /\ UNCHANGED <<wcSupported, encoder, veEmitted, chunks, frameCount, totalFrames,
                 openFrames, wcInitWaiting, wcEmitted, wcSubmitted, wcLast>>

InitResults == {"supported", "unsupported", "typeerror"}

\* a WebCodecsVideoEncoder used directly through its methods
ApiNext ==
  /\ scenario = "webcodecs"
  /\ UNCHANGED drvVars
  /\ \/ WcInitCall
     \/ \E res \in InitResults : WcInitResume(res)
     \/ \E frameOk \in BOOLEAN : WcEncodeFrame(frameOk)
     \/ \E n \in 0..MaxFrames : WcSetTotalFrames(n)
     \/ \E h \in Handles : WcOutput(h)
     \/ \E i \in CallIds : WcFinishCall(i)
     \/ \E i \in CallIds : WcFlushResolve(i)
     \/ WcCleanup
     \/ \E h \in Handles : WcCodecError(h)

----------------------------------------------------------------------------
(* WebCodecsEncoder.ts: encodeVideoWithAudio *)

\* the function is between two awaits that only yield to microtasks
DrvBusy ==
  \/ drvPc = "loop"
  \/ drvPc = "awaitFinish" /\ wcFinish[drvCall].st \in {"ok", "error"}

\* encodeVideoWithAudio(...): new WebCodecsVideoEncoder, await encoder.init()
DrvStart(total) ==
  /\ drvPc = "idle"
  /\ WcInitCall
  /\ drvTotal' = total
  /\ IF wcLast'.err = "pending"
       THEN drvPc' = "awaitInit" /\ UNCHANGED drvError
       ELSE drvPc' = "rejected" /\ drvError' = wcLast'.err
  /\ UNCHANGED <<drvI, drvCall>>

\* init() settles; on success setTotalFrames and the frame loop begins
DrvInitResume(res) ==
  /\ drvPc = "awaitInit"
  /\ wcInitWaiting > 0
  /\ wcInitWaiting' = wcInitWaiting - 1
  /\ IF res = "supported"
       THEN LET h == HandlesCreated + 1 IN
            /\ veState' = [veState EXCEPT ![h] = "configured"]
            /\ encoder' = h
            /\ wcLast' = [op |-> "init", err |-> ""]
            /\ totalFrames' = drvTotal
            /\ drvPc' = "loop"
            /\ UNCHANGED drvError
       ELSE /\ wcLast' = [op |-> "init",
                          err |-> IF res = "unsupported"
                                    THEN "Encoder configuration not supported"
                                    ELSE "TypeError"]
            /\ drvPc' = "rejected"
            /\ drvError' = wcLast'.err
            /\ UNCHANGED <<veState, encoder, totalFrames>>
  /\ drvI' = 0
  /\ UNCHANGED <<wcSupported, vePending, veEmitted, chunks, frameCount,
                 openFrames, wcFinish, wcEmitted, wcSubmitted, drvTotal, drvCall>>

\* one iteration of the frame loop: await encoder.encodeFrame(canvas, timestamp)
DrvFrame(frameOk) ==
  /\ drvPc = "loop"
  /\ drvI < drvTotal
  /\ WcEncodeFrame(frameOk)
  /\ IF wcLast'.err # ""
       THEN drvPc' = "rejected" /\ drvError' = wcLast'.err /\ UNCHANGED drvI
       ELSE /\ drvI' = drvI + 1
            /\ drvPc' = IF drvI % 10 = 0 THEN "timer" ELSE "loop"
            /\ UNCHANGED drvError
  /\ UNCHANGED <<drvTotal, drvCall>>

\* the setTimeout(resolve, 0) the loop awaits after every tenth frame
DrvTimer ==
  /\ drvPc = "timer"
  /\ drvPc' = "loop"
  /\ UNCHANGED <<wcVars, drvI, drvTotal, drvError, drvCall>>

\* after the loop: await encoder.finish()
DrvFinishCall(i) ==
  /\ drvPc = "loop"
  /\ drvI >= drvTotal
  /\ WcFinishCall(i)
  /\ drvCall' = i
  /\ drvPc' = "awaitFinish"
  /\ UNCHANGED <<drvI, drvTotal, drvError>>

\* finish() settled: encoder.cleanup() and return the blob, or the rejection propagates
DrvFinishSettled ==
  /\ drvPc = "awaitFinish"
  /\ wcFinish[drvCall].st \in {"ok", "error"}
  /\ IF wcFinish[drvCall].st = "ok"
       THEN /\ WcCleanup
            /\ drvPc' = "resolved"
            /\ UNCHANGED drvError
       ELSE /\ drvPc' = "rejected"
            /\ drvError' = wcFinish[drvCall].err
            /\ UNCHANGED wcVars
  /\ UNCHANGED <<drvI, drvTotal, drvCall>>

DrvNext ==
  /\ scenario = "encodeVideoWithAudio"
  /\ \/ \E total \in 0..MaxFrames : DrvStart(total)
     \/ \E res \in InitResults : DrvInitResume(res)
     \/ \E frameOk \in BOOLEAN : DrvFrame(frameOk)
     \/ DrvTimer
     \/ \E i \in CallIds : DrvFinishCall(i)
     \/ DrvFinishSettled
     \/ ~DrvBusy /\ UNCHANGED drvVars /\ \E h \in Handles : WcOutput(h)
     \/ ~DrvBusy /\ UNCHANGED drvVars /\ \E i \in CallIds : WcFlushResolve(i)
     \/ ~DrvBusy /\ UNCHANGED drvVars /\ \E h \in Handles : WcCodecError(h)

WcInit ==
  /\ wcSupported \in BOOLEAN
  /\ encoder = 0
  /\ veState = [h \in Handles |-> "none"]
  /\ vePending = [h \in Handles |-> <<>>]
  /\ veEmitted = [h \in Handles |-> 0]
  /\ chunks = <<>>
  /\ frameCount = 0
  /\ totalFrames = 0
  /\ openFrames = 0
  /\ wcInitWaiting = 0
  /\ wcFinish = [i \in CallIds |-> NoCall]
  /\ wcEmitted = <<>>
  /\ wcSubmitted = 0
  /\ wcLast = [op |-> "none", err |-> ""]
  /\ drvPc = "idle" /\ drvI = 0 /\ drvTotal = 0 /\ drvError = "" /\ drvCall = 1

----------------------------------------------------------------------------
(* Host: MediaRecorder *)

recVars == <<recState, recQueue, recDelivered, recSegs, recStopCalls, recStopInactive>>
quickVars == <<cancelled, mediaRecorder, recordedChunks, qPc, qPromise, qTimer,
               currentFrame, qTotalFrames, qDrawn, qCancelEarly, qStopHandled, qErrorHandled>>
pageVars == <<pageStarted, pageEnded, recordedBlobs, webmBlob>>

\* the k-th data segment: a Blob of one or of no bytes
Segment(k, nonEmpty) == IF nonEmpty THEN <<k>> ELSE <<>>

DataEvent(data) == [type |-> "dataavailable", data |-> data]
StopEvent == [type |-> "stop", data |-> <<>>]
ErrorEvent == [type |-> "error", data |-> <<>>]

\* MediaRecorder.stop() on a recorder whose state is rs: an active recorder becomes
\* inactive and the host queues dataavailable (the data gathered) and then stop
RecorderStop(rs, nonEmpty) ==
  /\ recStopCalls' = recStopCalls + 1
  /\ IF rs = "recording"
       THEN /\ recState' = "inactive"
            /\ recQueue' = recQueue \o <<DataEvent(Segment(recSegs + 1, nonEmpty)), StopEvent>>
            /\ recSegs' = recSegs + 1
            /\ UNCHANGED recStopInactive
       ELSE /\ recState' = rs
            /\ recStopInactive' = recStopInactive + 1
            /\ UNCHANGED <<recQueue, recSegs>>
  /\ UNCHANGED recDelivered

\* the host hands over a segment while recording
RecEmitData(nonEmpty) ==
  /\ recState = "recording"
  /\ recSegs < MaxSegs
  /\ recQueue' = Append(recQueue, DataEvent(Segment(recSegs + 1, nonEmpty)))
  /\ recSegs' = recSegs + 1
  /\ UNCHANGED <<recState, recDelivered, recStopCalls, recStopInactive>>

\* the recording fails: the host inactivates the recorder and queues error,
\* dataavailable and stop
RecError(nonEmpty) ==
  /\ recState = "recording"
  /\ recState' = "inactive"
  /\ recQueue' = recQueue \o <<ErrorEvent, DataEvent(Segment(recSegs + 1, nonEmpty)), StopEvent>>
  /\ recSegs' = recSegs + 1
  /\ UNCHANGED <<recDelivered, recStopCalls, recStopInactive>>

\* Promise: resolve / reject settle a pending promise and do nothing to a settled one
PendingPromise == [state |-> "pending", blob |-> <<>>, err |-> ""]
NoPromise == [state |-> "none", blob |-> <<>>, err |-> ""]
Resolve(pr, blob) == IF pr.state = "pending" THEN [state |-> "resolved", blob |-> blob, err |-> ""] ELSE pr
Reject(pr, err) == IF pr.state = "pending" THEN [state |-> "rejected", blob |-> <<>>, err |-> err] ELSE pr

----------------------------------------------------------------------------
(* QuickVideoEncoder.ts *)

\* isCancelled()
IsCancelledNever(c) == FALSE
IsCancelled(c) == c

\* ondataavailable: only segments with data are kept
OnDataAvailable(cs, data) == IF Len(data) > 0 THEN Append(cs, data) ELSE cs

\* cancel()
QuickCancel(nonEmpty) ==
  /\ cancelled' = TRUE
  /\ qCancelEarly' = (qCancelEarly \/ ~qStopHandled)
  /\ IF mediaRecorder # 0 /\ recState = "recording"
       THEN RecorderStop(recState, nonEmpty)
       ELSE UNCHANGED recVars
  /\ UNCHANGED <<mediaRecorder, recordedChunks, qPc, qPromise, qTimer, currentFrame,
                 qTotalFrames, qDrawn, qStopHandled, qErrorHandled>>

\* renderNextFrame: every frame has been drawn (currentFrame >= totalFrames)
AllFramesDrawnEarly(cur, total) == cur + 1 >= total
AllFramesDrawn(cur, total) == cur >= total

\* renderNextFrame, with the recorder in state rs, frame index cur of total frames
RenderNextFrame(rs, cur, total, nonEmpty) ==
  IF IsCancelled(cancelled)
    THEN /\ RecorderStop(rs, nonEmpty)
         /\ qTimer' = "none"
         /\ currentFrame' = cur
         /\ UNCHANGED qDrawn
    ELSE IF AllFramesDrawn(cur, total)
    THEN /\ qTimer' = "final"
         /\ currentFrame' = cur
         /\ recState' = rs
         /\ UNCHANGED <<recQueue, recDelivered, recSegs, recStopCalls, recStopInactive, qDrawn>>
    ELSE /\ qDrawn' = Append(qDrawn, cur)
         /\ currentFrame' = cur + 1
         /\ qTimer' = "frame"
         /\ recState' = rs
         /\ UNCHANGED <<recQueue, recDelivered, recSegs, recStopCalls, recStopInactive>>

\* encodeWithCanvas2D(analysisResult, backgroundImage); ctxOk: getContext('2d') succeeds
QuickEncode(total, ctxOk, nonEmpty) ==
  /\ qPc = "idle"
  /\ qPc' = "called"
  /\ qTotalFrames' = total
  /\ IF ~ctxOk
       THEN /\ qPromise' = Reject(PendingPromise, "Failed to get 2D context")
            /\ UNCHANGED <<recVars, mediaRecorder, recordedChunks, qTimer, currentFrame, qDrawn>>
       ELSE /\ mediaRecorder' = 1
            /\ recordedChunks' = <<>>
            /\ qPromise' = PendingPromise
            /\ RenderNextFrame("recording", 0, total, nonEmpty)
  /\ UNCHANGED <<cancelled, qCancelEarly, qStopHandled, qErrorHandled>>

\* the setTimeout(renderNextFrame, 1000 / frameRate) timer fires
QuickFrameTimer(nonEmpty) ==
  /\ qTimer = "frame"
  /\ RenderNextFrame(recState, currentFrame, qTotalFrames, nonEmpty)
  /\ UNCHANGED <<cancelled, mediaRecorder, recordedChunks, qPc, qPromise, qTotalFrames,
                 qCancelEarly, qStopHandled, qErrorHandled>>

\* the 100 ms finalization timer fires: this.mediaRecorder.stop()
QuickFinalTimer(nonEmpty) ==
  /\ qTimer = "final"
  /\ qTimer' = "none"
  /\ RecorderStop(recState, nonEmpty)
  /\ UNCHANGED <<cancelled, mediaRecorder, recordedChunks, qPc, qPromise, currentFrame,
                 qTotalFrames, qDrawn, qCancelEarly, qStopHandled, qErrorHandled>>

\* the next recorder event is dispatched to ondataavailable / onstop / onerror
QuickDeliver ==
  /\ recQueue # <<>>
  /\ recQueue' = Tail(recQueue)
  /\ LET ev == Head(recQueue) IN
       /\ recDelivered' = IF ev.type = "dataavailable"
                            THEN Append(recDelivered, ev.data) ELSE recDelivered
       /\ recordedChunks' = IF ev.type = "dataavailable"
                              THEN OnDataAvailable(recordedChunks, ev.data) ELSE recordedChunks
       /\ qPromise' = IF ev.type = "stop"
                        THEN IF IsCancelled(cancelled)
                               THEN Reject(qPromise, "Cancelled")
                               ELSE Resolve(qPromise, BlobOf(recordedChunks))
                      ELSE IF ev.type = "error" THEN Reject(qPromise, "RecorderError")
                      ELSE qPromise
       /\ qStopHandled' = (qStopHandled \/ ev.type = "stop")
       /\ qErrorHandled' = (qErrorHandled \/ ev.type = "error")
  /\ UNCHANGED <<recState, recSegs, recStopCalls, recStopInactive, cancelled, mediaRecorder,
                 qPc, qTimer, currentFrame, qTotalFrames, qDrawn, qCancelEarly>>

QuickNext ==
  /\ scenario = "quick"
  /\ UNCHANGED pageVars
  /\ \/ \E ne \in BOOLEAN : QuickCancel(ne)
     \/ \E total \in 0..MaxFrames, ctxOk \in BOOLEAN, ne \in BOOLEAN : QuickEncode(total, ctxOk, ne)
     \/ \E ne \in BOOLEAN : QuickFrameTimer(ne)
     \/ \E ne \in BOOLEAN : QuickFinalTimer(ne)
     \/ QuickDeliver
     \/ UNCHANGED quickVars /\ \E ne \in BOOLEAN : RecEmitData(ne)
     \/ UNCHANGED quickVars /\ \E ne \in BOOLEAN : RecError(ne)

----------------------------------------------------------------------------
(* pages/index.tsx: onRecordMovie *)

\* the timer body of onRecordMovie: new MediaRecorder, listeners, recorder.start()
PageRecordStart ==
  /\ ~pageStarted
  /\ pageStarted' = TRUE
  /\ recState' = "recording"
  /\ UNCHANGED <<recQueue, recDelivered, recSegs, recStopCalls, recStopInactive,
                 pageEnded, recordedBlobs, webmBlob>>

\* the onended handler installed by onRecordMovie: recorder.stop()
PageOnEnded(nonEmpty) ==
  /\ pageStarted /\ ~pageEnded
  /\ pageEnded' = TRUE
  /\ RecorderStop(recState, nonEmpty)
  /\ UNCHANGED <<pageStarted, recordedBlobs, webmBlob>>

\* the next recorder event is dispatched to the "dataavailable" / "stop" listeners
PageDeliver ==
  /\ recQueue # <<>>
  /\ recQueue' = Tail(recQueue)
  /\ LET ev == Head(recQueue) IN
       /\ recDelivered' = IF ev.type = "dataavailable"
                            THEN Append(recDelivered, ev.data) ELSE recDelivered
       /\ recordedBlobs' = IF ev.type = "dataavailable"
                             THEN Append(recordedBlobs, ev.data) ELSE recordedBlobs
       /\ webmBlob' = IF ev.type = "stop" THEN Some(BlobOf(recordedBlobs)) ELSE webmBlob
  /\ UNCHANGED <<recState, recSegs, recStopCalls, recStopInactive, pageStarted, pageEnded>>

PageNext ==
  /\ scenario = "page"
  /\ UNCHANGED quickVars
  /\ \/ PageRecordStart
     \/ \E ne \in BOOLEAN : PageOnEnded(ne)
     \/ PageDeliver
     \/ UNCHANGED pageVars /\ \E ne \in BOOLEAN : RecEmitData(ne)
     \/ UNCHANGED pageVars /\ \E ne \in BOOLEAN : RecError(ne)

RecInit ==
  /\ recState = "none"
  /\ recQueue = <<>>
  /\ recDelivered = <<>>
  /\ recSegs = 0
  /\ recStopCalls = 0
  /\ recStopInactive = 0
  /\ cancelled = FALSE
  /\ mediaRecorder = 0
  /\ recordedChunks = <<>>
  /\ qPc = "idle"
  /\ qPromise = NoPromise
  /\ qTimer = "none"
  /\ currentFrame = 0
  /\ qTotalFrames = 0
  /\ qDrawn = <<>>
  /\ qCancelEarly = FALSE
  /\ qStopHandled = FALSE
  /\ qErrorHandled = FALSE
  /\ pageStarted = FALSE
  /\ pageEnded = FALSE
  /\ recordedBlobs = <<>>
  /\ webmBlob = None

encVars == <<scenario, wcVars, drvVars, recVars, quickVars, pageVars>>

----------------------------------------------------------------------------
LoopInit ==
  /\ now = 0
  /\ rafQueue = {}
  /\ nextRafId = 1
  /\ canvasSize = [c \in Canvases |-> 1]
  /\ glContext = None
  /\ glFpsCounter = 0 /\ glFpsLastTime = 0 /\ glCurrentFPS = 0
  /\ glAnimationFrameId = 0
  /\ isAnimating = FALSE
  /\ latest = NullLatest
  /\ fpsCounter = 0 /\ fpsLastTime = 0 /\ currentFPS = 0
  /\ animationFrameId = 0
  /\ imageCache = None
  /\ lastOp = [op |-> "init", paint |-> FALSE, idle |-> FALSE]
  /\ painted = [backend |-> "none", params |-> NullLatest, ctxCanvas |-> 0]
  /\ glStopped = FALSE
  /\ c2dStopped = FALSE

\* the WebGL draw loop; a canvas may already carry a 2D context
GLInit == LoopInit /\ rendererType = "webgl" /\ canvasKind \in [Canvases -> {"none", "2d"}]

GLNext ==
  \/ \E p \in Params, glOk \in {"ok", "nogl", "noshader"} : DrawBarsWebGL(p, glOk)
  \/ TickWebGL
  \/ TickWebGLThrows
  \/ StopWebGLAnimation
  \/ ClearWebGLImageCache
  \/ CleanupWebGL

\* the Canvas 2D draw loop; a canvas may already carry a WebGL context
C2DInit == LoopInit /\ rendererType = "canvas2d" /\ canvasKind \in [Canvases -> {"none", "webgl"}]

C2DNext ==
  \/ \E p \in Params, offOk \in BOOLEAN : CallDrawBars(p, offOk)
  \/ \E offOk \in BOOLEAN : TickCanvas2D(offOk)
  \/ \E offOk \in BOOLEAN : TickCanvas2DThrows(offOk)
  \/ StopCanvas2DAnimation
  \/ ClearImageCache
  \/ ResetFPS

----------------------------------------------------------------------------
(* Background preparation: drawImageToOffscreen and prepareImageTexture on their own *)

CacheImages == 1..NumCacheImages
SurfaceSizes == (1..NumDims) \X (1..NumDims)     \* <<canvasWidth, canvasHeight>>

prepVars == <<prepPrev, prepLast>>

PrepIdle == prepPrev = None /\ prepLast = None

\* the record of one preparation: hit: the cache check passed; work: the composite was
\* built and kept; result: the canvas or texture content handed to the draw
Preparation(image, size, hit, work, result) ==
  [image |-> image, size |-> size, hit |-> hit, work |-> work, result |-> result]

\* drawImageToOffscreen(image, canvasWidth, canvasHeight)
PrepareOffscreen(image, size, offOk) ==
  /\ rendererType = "canvas2d"
  /\ imageCache' = DrawImageToOffscreen(imageCache, image, size, offOk)
  /\ prepPrev' = prepLast
  /\ prepLast' = Some(Preparation(image, size,
                                   OffscreenCacheValid(imageCache, image, size),
                                   ~OffscreenCacheValid(imageCache, image, size) /\ offOk,
                                   OffscreenCanvasOf(imageCache, image, size, offOk)))
  /\ lastOp' = [op |-> "drawImageToOffscreen", paint |-> FALSE, idle |-> FALSE]
  /\ UNCHANGED <<hostVars, glVars, c2dFpsVars, animationFrameId, painted, glStopped, c2dStopped>>

\* prepareImageTexture(ctx, image, canvasWidth, canvasHeight)
PrepareTexture(image, size, tempOk, texOk) ==
  /\ rendererType = "webgl"
  /\ glContext # None
  /\ LET ctx == PrepareImageTextureWith(glContext[1], image, size, tempOk, texOk) IN
       /\ glContext' = Some(ctx)
       /\ prepPrev' = prepLast
       /\ prepLast' = Some(Preparation(image, size,
                                        TextureCacheValid(glContext[1], image, size),
                                        ~TextureCacheValid(glContext[1], image, size)
                                           /\ ctx.imageTexture,
                                        ctx.texture))
  /\ lastOp' = [op |-> "prepareImageTexture", paint |-> FALSE, idle |-> FALSE]
  /\ UNCHANGED <<hostVars, glFpsVars, glAnimationFrameId, isAnimating, latest,
                 c2dVars, painted, glStopped, c2dStopped>>

\* glContext = initWebGL(canvas), as drawBarsWebGL does before the first frame
PrepareContext(canvas, glOk) ==
  /\ rendererType = "webgl"
  /\ glContext = None
  /\ glContext' = InitWebGLResult(canvas, glOk)
  /\ canvasKind' = InitWebGLKind(canvas, glOk)
  /\ lastOp' = [op |-> "initWebGL", paint |-> FALSE, idle |-> FALSE]
  /\ UNCHANGED <<now, rafQueue, nextRafId, canvasSize, glFpsVars, glAnimationFrameId,
                 isAnimating, latest, c2dVars, painted, glStopped, c2dStopped, prepVars>>

\* the caches start empty
CacheInit ==
  /\ LoopInit
  /\ canvasKind = [c \in Canvases |-> "none"]
  /\ PrepIdle

CacheNext ==
  \/ \E glOk \in {"ok", "nogl"} : PrepareContext(1, glOk)
  \/ \E image \in CacheImages, size \in SurfaceSizes, offOk \in BOOLEAN :
        PrepareOffscreen(image, size, offOk)
  \/ \E image \in CacheImages, size \in SurfaceSizes, tempOk \in BOOLEAN, texOk \in BOOLEAN :
        PrepareTexture(image, size, tempOk, texOk)
  \/ rendererType = "canvas2d" /\ ClearImageCache /\ prepPrev' = None /\ prepLast' = None
  \/ rendererType = "webgl" /\ ClearWebGLImageCache /\ prepPrev' = None /\ prepLast' = None

----------------------------------------------------------------------------
(* Pure functions of the renderers: one run applies one function to one input *)

fnVars == <<fnIn, fnOut>>

FnIdle == fnIn = None /\ fnOut = None

FnCall(fn, impl, args) == [fn |-> fn, impl |-> impl, args |-> args]

\* the function of the run has not been applied yet
FnReady(fn) == fnIn # None /\ fnIn[1].fn = fn /\ fnOut = None

\* background placement of drawImageToOffscreen (and prepareImageTexture,
\* drawBackgroundWebGL): fit by aspect ratio, rounded, centred; posX and posY are
\* kept doubled (posX2 = 2 * posX) as they may be half pixels
FitInside(iw, ih, W, H) ==
  LET wide == iw * H > W * ih                 \* imageAspect > canvasAspect
      w == IF wide THEN W ELSE RoundDiv(H * iw, ih)
      h == IF wide THEN RoundDiv(W * ih, iw) ELSE H
  IN [width |-> w, height |-> h,
      posX2 |-> IF W - w = 0 THEN 0 ELSE W - w,
      posY2 |-> IF H - h = 0 THEN 0 ELSE H - h]

\* background placement of drawBars in src/lib/Canvas.ts: an image larger than the
\* canvas is scaled to the canvas width and then shrunk by the do-while, a smaller one
\* keeps its size
LegacyPlacement(iw, ih, W, H) ==
  LET big == iw > W \/ ih > H
      w == IF big THEN W - 1 ELSE iw
      h == IF big THEN RoundDiv(ih * W, iw) - 1 ELSE ih
  IN [width |-> w, height |-> h,
      posX2 |-> IF W - w = 0 THEN 0 ELSE W - w,
      posY2 |-> IF H - h = 0 THEN 0 ELSE H - h]

PlacementImpls == {"drawImageToOffscreen", "legacyDrawBars"}
PlacementImageDims == (1..MaxDim) \cup {2000, 4000}
PlacementSurfaceDims == (1..MaxDim) \cup {1080, 1920}

PlacementInputs ==
  {FnCall("placement", impl, <<iw, ih, W, H>>) :
     impl \in PlacementImpls, iw \in PlacementImageDims, ih \in PlacementImageDims,
     W \in PlacementSurfaceDims, H \in PlacementSurfaceDims}

\* the image placement is computed
ApplyPlacement ==
  /\ FnReady("placement")
  /\ LET a == fnIn[1].args IN
       fnOut' = Some(IF fnIn[1].impl = "legacyDrawBars"
                       THEN LegacyPlacement(a[1], a[2], a[3], a[4])
                       ELSE FitInside(a[1], a[2], a[3], a[4]))
  /\ UNCHANGED fnIn

----------------------------------------------------------------------------
(* Mode renderers: drawMode0..drawMode6 (WebGL) and the mode branches of drawBars (Canvas 2D) *)

\* the seven visualisation modes
DrawModes == 0..6

Backends == {"webgl", "canvas2d"}

\* values a byte of the sample buffer takes: silence, the least non-zero level, full level
SampleValues == {0, 1, 255}

\* analyser.frequencyBinCount is fftSize / 2 and fftSize is a power of two
AnalyserBinCounts == {16, 32, 64, 128, 256, 512, 1024, 2048, 4096}

\* sample buffers are indexed from 0, as the Uint8Array of the source; the short ones
\* take every combination of values, the long ones hold one value throughout
SampleBuffers ==
  UNION {[0..(len - 1) -> SampleValues] : len \in 1..MaxBufLen}
    \cup {[i \in 0..(len - 1) |-> v] : len \in AnalyserBinCounts, v \in SampleValues}

BufferLength(bufferData) == Cardinality(DOMAIN bufferData)

\* bufferData[i]: reading a typed array outside its length yields undefined (None)
SampleAt(bufferData, i) == IF i \in DOMAIN bufferData THEN Some(bufferData[i]) ELSE None

\* indices at which the WebGL mode renderer reads the sample buffer during one frame
DrawModeIndicesWebGL(mode, bufferData) ==
  LET bufferLength == BufferLength(bufferData) IN
    CASE mode \in {0, 3} -> 0..127
      [] mode \in {1, 5} -> UNION {{i, i + 1} : i \in 0..(bufferLength - 2)}
      [] mode = 2 -> {1} \cup (0..255)
      [] mode = 4 -> {(col * bufferLength) \div 32 : col \in 0..31}
      [] mode = 6 -> {(i * bufferLength) \div 64 : i \in 0..63}

\* indices at which the Canvas 2D mode branch reads the sample buffer during one frame
DrawModeIndicesCanvas2D(mode, bufferData) ==
  LET bufferLength == BufferLength(bufferData) IN
    CASE mode \in {0, 3} -> 0..127
      [] mode \in {1, 5} -> 0..(bufferLength - 1)
      [] mode = 2 -> {1} \cup (0..255)
      [] mode = 4 -> {(col * bufferLength) \div 32 : col \in 0..31}
      [] mode = 6 -> {(i * bufferLength) \div 64 : i \in 0..63}

\* draw calls of drawLine for a radial bar from radius to radius + barLength: it
\* returns early when the two end points coincide (len === 0); with a NaN radius
\* len is NaN and the call is issued
DrawLine(radiusIsNaN, barLength) == IF ~radiusIsNaN /\ barLength = 0 THEN 0 ELSE 1

\* bars of the circular mode whose sample passes `value >= 0` (undefined does not)
Mode2Bars(bufferData) == {i \in 0..255 : SampleAt(bufferData, i) # None}

\* draw calls the WebGL mode renderer issues for one frame; the x extent of a
\* waveform segment is never zero (scaleX # 0), so drawLine draws each of them
DrawModePrimitivesWebGL(mode, bufferData) ==
  LET bufferLength == BufferLength(bufferData) IN
    CASE mode \in {0, 3} -> 128
      [] mode = 1 -> bufferLength - 1
      [] mode = 2 ->
           Cardinality({i \in Mode2Bars(bufferData) :
                          DrawLine(SampleAt(bufferData, 1) = None, bufferData[i]) = 1})
      [] mode = 4 -> 32 * 16
      [] mode = 5 -> 2 * (bufferLength - 1)
      [] mode = 6 -> 2 * 64

\* bars, line segments and dots the Canvas 2D mode branch issues for one frame
DrawModePrimitivesCanvas2D(mode, bufferData) ==
  LET bufferLength == BufferLength(bufferData) IN
    CASE mode \in {0, 3} -> 128
      [] mode = 1 -> bufferLength - 1
      [] mode = 2 -> Cardinality(Mode2Bars(bufferData))
      [] mode = 4 -> 32 * 16
      [] mode = 5 -> 2 * (bufferLength - 1)
      [] mode = 6 -> 64

DrawModeIndices(backend, mode, bufferData) ==
  IF backend = "webgl" THEN DrawModeIndicesWebGL(mode, bufferData)
                       ELSE DrawModeIndicesCanvas2D(mode, bufferData)

DrawModePrimitives(backend, mode, bufferData) ==
  IF backend = "webgl" THEN DrawModePrimitivesWebGL(mode, bufferData)
                       ELSE DrawModePrimitivesCanvas2D(mode, bufferData)

DrawModeInputs ==
  {FnCall("drawMode", backend, <<mode, bufferData>>) :
     backend \in Backends, mode \in DrawModes, bufferData \in SampleBuffers}

\* one frame of one mode is drawn from one sample buffer
ApplyDrawMode ==
  /\ FnReady("drawMode")
  /\ LET backend == fnIn[1].impl
         mode == fnIn[1].args[1]
         bufferData == fnIn[1].args[2]
     IN fnOut' = Some([reads |-> DrawModeIndices(backend, mode, bufferData),
                       primitives |-> DrawModePrimitives(backend, mode, bufferData)])
  /\ UNCHANGED fnIn

----------------------------------------------------------------------------
(* Adjustment transform: applyTransform (WebGL) and the Canvas 2D transform of drawBars *)

\* numbers are exact fractions num / den with den > 0
Frac(n, d) == [num |-> n, den |-> d]
FracOfInt(n) == Frac(n, 1)
FracAdd(a, b) == Frac(a.num * b.den + b.num * a.den, a.den * b.den)
FracSub(a, b) == Frac(a.num * b.den - b.num * a.den, a.den * b.den)
FracMul(a, b) == Frac(a.num * b.num, a.den * b.den)
FracNeg(a) == Frac(-a.num, a.den)
FracEq(a, b) == a.num * b.den = b.num * a.den
PointEq(p, q) == FracEq(p[1], q[1]) /\ FracEq(p[2], q[2])

\* the default drawBars and renderFrame use when no adjustments are supplied
IdentityAdjustment ==
  [scaleX |-> FracOfInt(1), scaleY |-> FracOfInt(1),
   offsetX |-> FracOfInt(0), offsetY |-> FracOfInt(0)]

\* (canvasWidth * adj.offsetX) / 100
OffsetPixels(extent, offset) == FracMul(FracMul(FracOfInt(extent), offset), Frac(1, 100))

\* applyTransform(x, y, canvasWidth, canvasHeight, adj)
ApplyTransformNoRecentre(x, y, W, H, adj) ==
  <<FracAdd(FracMul(FracSub(x, Frac(W, 2)), adj.scaleX), OffsetPixels(W, adj.offsetX)),
    FracAdd(FracMul(FracSub(y, Frac(H, 2)), adj.scaleY), OffsetPixels(H, adj.offsetY))>>
ApplyTransform(x, y, W, H, adj) ==
  <<FracAdd(FracMul(FracSub(x, Frac(W, 2)), adj.scaleX),
            FracAdd(Frac(W, 2), OffsetPixels(W, adj.offsetX))),
    FracAdd(FracMul(FracSub(y, Frac(H, 2)), adj.scaleY),
            FracAdd(Frac(H, 2), OffsetPixels(H, adj.offsetY)))>>

\* the current transformation matrix of a 2D context without rotation:
\* x' = a * x + e, y' = d * y + f
IdentityMatrix == [a |-> FracOfInt(1), d |-> FracOfInt(1), e |-> FracOfInt(0), f |-> FracOfInt(0)]
Translate(m, tx, ty) ==
  [m EXCEPT !.e = FracAdd(m.e, FracMul(m.a, tx)), !.f = FracAdd(m.f, FracMul(m.d, ty))]
Scale(m, sx, sy) == [m EXCEPT !.a = FracMul(m.a, sx), !.d = FracMul(m.d, sy)]
MapPoint(m, x, y) == <<FracAdd(FracMul(m.a, x), m.e), FracAdd(FracMul(m.d, y), m.f)>>

\* drawBars: ctx.translate(W/2 + offsetXPixels, H/2 + offsetYPixels);
\* ctx.scale(adj.scaleX, adj.scaleY); ctx.translate(-W/2, -H/2)
Canvas2DTransformScaleFirst(W, H, adj) ==
  Translate(Translate(Scale(IdentityMatrix, adj.scaleX, adj.scaleY),
                      FracAdd(Frac(W, 2), OffsetPixels(W, adj.offsetX)),
                      FracAdd(Frac(H, 2), OffsetPixels(H, adj.offsetY))),
            FracNeg(Frac(W, 2)), FracNeg(Frac(H, 2)))
Canvas2DTransform(W, H, adj) ==
  Translate(Scale(Translate(IdentityMatrix,
                            FracAdd(Frac(W, 2), OffsetPixels(W, adj.offsetX)),
                            FracAdd(Frac(H, 2), OffsetPixels(H, adj.offsetY))),
                  adj.scaleX, adj.scaleY),
            FracNeg(Frac(W, 2)), FracNeg(Frac(H, 2)))

\* the adjustment a caller passes: undefined (None) or a record; drawBars and
\* renderFrame replace undefined by the identity
AdjustmentOrDefault(adjustments) ==
  IF adjustments = None THEN IdentityAdjustment ELSE adjustments[1]

TransformCoords == {Frac(k, 2) : k \in 0..(2 * MaxCoord)}
TransformScales == {Frac(1, 2), FracOfInt(1), FracOfInt(2)}
TransformOffsets == {FracOfInt(-150), FracOfInt(0), Frac(25, 2)}
TransformAdjustments ==
  [scaleX : TransformScales, scaleY : {FracOfInt(1), Frac(3, 2)},
   offsetX : TransformOffsets, offsetY : {FracOfInt(0), FracOfInt(50)}]

\* arguments: the point, the surface size, and the adjustment (None: none supplied)
TransformInputs ==
  {FnCall("transform", "both", <<x, y, W, H, adjustments>>) :
     x \in TransformCoords, y \in TransformCoords,
     W \in 1..MaxSurface, H \in 1..MaxSurface,
     adjustments \in {None} \cup {Some(adj) : adj \in TransformAdjustments}}

\* the point is transformed by applyTransform and by the Canvas 2D transform
ApplyTransforms ==
  /\ FnReady("transform")
  /\ LET a == fnIn[1].args
         adj == AdjustmentOrDefault(a[5])
     IN fnOut' = Some([webgl |-> ApplyTransform(a[1], a[2], a[3], a[4], adj),
                       canvas2d |-> MapPoint(Canvas2DTransform(a[3], a[4], adj), a[1], a[2])])
  /\ UNCHANGED fnIn

----------------------------------------------------------------------------
(* Mode 3, symmetric bars: the vertical extent of one bar in the three renderers *)

SymmetricBarImpls == {"webgl", "canvas2d", "quick"}

RECURSIVE Gcd(_, _)
Gcd(a, b) == IF b = 0 THEN a ELSE Gcd(b, a % b)

\* a fraction in lowest terms
FracNorm(a) ==
  LET g == Gcd(IF a.num < 0 THEN -a.num ELSE a.num, a.den)
  IN Frac(a.num \div g, a.den \div g)

\* surface heights: small ones, the height at which 2 * 255 fills the surface, and 1080
SymmetricBarHeights == (1..MaxHeight) \cup {510, 1080}

\* drawMode3: barHeight = bufferData[i] * 2, y = centerY - barHeight / 2; the
\* rectangle runs from the transformed (x, y) to the transformed (.., y + barHeight)
DrawMode3Extent(value, canvasHeight, adj) ==
  LET barHeight == FracOfInt(value * 2)
      y == FracSub(Frac(canvasHeight, 2), FracMul(barHeight, Frac(1, 2)))
      p1 == ApplyTransform(FracOfInt(0), y, 1, canvasHeight, adj)
      p2 == ApplyTransform(FracOfInt(0), FracAdd(y, barHeight), 1, canvasHeight, adj)
  IN [top |-> FracNorm(p1[2]), bottom |-> FracNorm(p2[2])]

\* drawBars, mode 3: fillRect(i * barWidth, centerY - barHeight / 2, barWidth - 1,
\* barHeight) under the adjustment transform of the context
DrawBarsMode3Extent(value, canvasHeight, adj) ==
  LET barHeight == FracOfInt(value * 2)
      y == FracSub(Frac(canvasHeight, 2), FracMul(barHeight, Frac(1, 2)))
      m == Canvas2DTransform(1, canvasHeight, adj)
  IN [top |-> FracNorm(MapPoint(m, FracOfInt(0), y)[2]),
      bottom |-> FracNorm(MapPoint(m, FracOfInt(0), FracAdd(y, barHeight))[2])]

\* drawSymmetricalBars: barHeight = (frequencyData[i] / 255) * (canvas.height / 2) * scaleY;
\* one rectangle from centerY - barHeight to centerY, one from centerY to centerY + barHeight
DrawSymmetricalBarsExtent(value, canvasHeight, adj) ==
  LET centerY == FracAdd(Frac(canvasHeight, 2), OffsetPixels(canvasHeight, adj.offsetY))
      barHeight == FracMul(FracMul(Frac(value, 255), Frac(canvasHeight, 2)), adj.scaleY)
  IN [top |-> FracNorm(FracSub(centerY, barHeight)),
      bottom |-> FracNorm(FracAdd(centerY, barHeight))]

SymmetricBarInputs ==
  {FnCall("symmetricBar", impl, <<value, canvasHeight, IdentityAdjustment>>) :
     impl \in SymmetricBarImpls, value \in SampleValues, canvasHeight \in SymmetricBarHeights}

\* one bar of mode 3 is drawn with the identity adjustment
ApplySymmetricBar ==
  /\ FnReady("symmetricBar")
  /\ LET value == fnIn[1].args[1]
         canvasHeight == fnIn[1].args[2]
         adj == fnIn[1].args[3]
     IN fnOut' = Some(CASE fnIn[1].impl = "webgl" ->
                             DrawMode3Extent(value, canvasHeight, adj)
                        [] fnIn[1].impl = "canvas2d" ->
                             DrawBarsMode3Extent(value, canvasHeight, adj)
                        [] fnIn[1].impl = "quick" ->
                             DrawSymmetricalBarsExtent(value, canvasHeight, adj))
  /\ UNCHANGED fnIn

----------------------------------------------------------------------------
(* pages/index.tsx: display adjustments saved per (mode, resolution) in localStorage *)

SettingModes == {0, 3}
SettingSizes == {"1920x1080", "1080x1920"}

\* values the sliders give: scaleX 1..MaxSettingValue, offsetY 0 or -150
SettingAdjustments ==
  {[scaleX |-> sx, scaleY |-> 1, offsetX |-> 0, offsetY |-> oy] :
     sx \in 1..MaxSettingValue, oy \in {0, -150}}

\* useState of modeAdjustments
DefaultAdjustments == [scaleX |-> 1, scaleY |-> 1, offsetX |-> 0, offsetY |-> 0]

\* getSettingsKey: `spectrumSettings_${mode}_${size}`
GetSettingsKey(mode, size) == <<"spectrumSettings", mode, size>>

SettingsKeys == {GetSettingsKey(m, s) : m \in SettingModes, s \in SettingSizes}

\* JSON.stringify of an adjustment record: its values in the order of its keys
Stringify(adj) == <<adj.scaleX, adj.scaleY, adj.offsetX, adj.offsetY>>

\* JSON.parse of a stored string
Parse(str) == [scaleX |-> str[1], scaleY |-> str[2], offsetX |-> str[3], offsetY |-> str[4]]

\* localStorage.setItem(key, JSON.stringify(adjustments)); storage maps each key to
\* None (no item) or Some(string)
SaveSettings(storage, mode, size, adj) ==
  [storage EXCEPT ![GetSettingsKey(mode, size)] = Some(Stringify(adj))]

\* loadSettings: the parsed item, or null
LoadSettings(storage, mode, size) ==
  LET saved == storage[GetSettingsKey(mode, size)]
  IN IF saved # None THEN Some(Parse(saved[1])) ELSE None

\* `if (loaded) setModeAdjustments(loaded)`: the adjustments in effect afterwards
LoadedIgnored(loaded, adj) == adj
LoadedOrKept(loaded, adj) == IF loaded # None THEN loaded[1] ELSE adj

\* handleAdjustmentChange(key, value)
HandleAdjustmentChange(key, value) ==
  LET newAdjustments == [settings.adjustments EXCEPT ![key] = value]
  IN settings' = [settings EXCEPT
                    !.adjustments = newAdjustments,
                    !.storage = SaveSettings(settings.storage, settings.mode,
                                             settings.size, newAdjustments),
                    !.last = "adjust"]

\* onChangeMode
OnChangeMode(newMode) ==
  /\ newMode # settings.mode
  /\ LET saved == SaveSettings(settings.storage, settings.mode, settings.size,
                               settings.adjustments)
     IN settings' = [settings EXCEPT
                       !.storage = saved,
                       !.mode = newMode,
                       !.adjustments = LoadedOrKept(LoadSettings(saved, newMode, settings.size),
                                                    settings.adjustments),
                       !.last = "mode"]

\* onChangeCanvasSize
OnChangeCanvasSize(newSize) ==
  /\ newSize # settings.size
  /\ LET saved == SaveSettings(settings.storage, settings.mode, settings.size,
                               settings.adjustments)
     IN settings' = [settings EXCEPT
                       !.storage = saved,
                       !.size = newSize,
                       !.adjustments = LoadedOrKept(LoadSettings(saved, settings.mode, newSize),
                                                    settings.adjustments),
                       !.last = "size"]

\* the import button and the paste field: importAllSettings writes every key of the
\* file, then the settings of the current combination are loaded again
ImportSettings(file) ==
  LET imported == [k \in SettingsKeys |->
                     IF file[k] # None THEN Some(Stringify(file[k][1])) ELSE settings.storage[k]]
  IN settings' = [settings EXCEPT
                    !.storage = imported,
                    !.adjustments = LoadedOrKept(LoadSettings(imported, settings.mode,
                                                              settings.size),
                                                 settings.adjustments),
                    !.last = "import"]

\* the clear button: localStorage.removeItem for every mode and size
ClearSettings ==
  settings' = [settings EXCEPT !.storage = [k \in SettingsKeys |-> None], !.last = "clear"]

\* settings files tried by the model: one adjustment record under a set of keys
SettingsFiles ==
  {[k \in SettingsKeys |-> IF k \in ks THEN Some(adj) ELSE None] :
     ks \in SUBSET SettingsKeys, adj \in SettingAdjustments}

\* the page before a run of the settings: nothing stored, defaults in effect
SettingsStart ==
  [mode |-> 0, size |-> "1920x1080", adjustments |-> DefaultAdjustments,
   storage |-> [k \in SettingsKeys |-> None], last |-> "init"]

\* the page after mount: the storage holds what earlier visits left, and the mount
\* effect has loaded the settings of the initial combination
SettingsInit ==
  \E file \in SettingsFiles :
     LET storage == [k \in SettingsKeys |->
                       IF file[k] # None THEN Some(Stringify(file[k][1])) ELSE None]
     IN settings = [SettingsStart EXCEPT
                      !.storage = storage,
                      !.adjustments = LoadedOrKept(LoadSettings(storage, 0, "1920x1080"),
                                                   DefaultAdjustments)]

SettingsNext ==
  \/ \E adj \in SettingAdjustments : HandleAdjustmentChange("scaleX", adj.scaleX)
  \/ \E adj \in SettingAdjustments : HandleAdjustmentChange("offsetY", adj.offsetY)
  \/ \E m \in SettingModes : OnChangeMode(m)
  \/ \E s \in SettingSizes : OnChangeCanvasSize(s)
  \/ \E file \in SettingsFiles : ImportSettings(file)
  \/ ClearSettings

----------------------------------------------------------------------------
(* Background image: the rectangle of the surface the image finally occupies *)

BackgroundImpls == {"webgl", "canvas2d"}

\* the destination rectangle of drawImage(image, 0, 0, rawWidth, rawHeight, posX, posY,
\* imageCtxWidth, imageCtxHeight) on a canvas of the surface's size
LetterboxRect(iw, ih, W, H) ==
  LET p == FitInside(iw, ih, W, H)
  IN [left |-> FracNorm(Frac(p.posX2, 2)), top |-> FracNorm(Frac(p.posY2, 2)),
      width |-> FracOfInt(p.width), height |-> FracOfInt(p.height)]

\* drawBars: drawImageToOffscreen composites the image on a canvas of the surface's
\* size and ctx.drawImage(offscreenCanvas, 0, 0) copies that canvas to the surface
BackgroundRectCanvas2D(iw, ih, W, H) == LetterboxRect(iw, ih, W, H)

\* the part of the surface that shows the rectangle inner of a W x H texture when the
\* whole texture (texCoords 0..1) is drawn on the quad
QuadImage(inner, quad, W, H) ==
  [left |-> FracNorm(FracAdd(quad.left, FracMul(inner.left, FracMul(quad.width, Frac(1, W))))),
   top |-> FracNorm(FracAdd(quad.top, FracMul(inner.top, FracMul(quad.height, Frac(1, H))))),
   width |-> FracNorm(FracMul(inner.width, FracMul(quad.width, Frac(1, W)))),
   height |-> FracNorm(FracMul(inner.height, FracMul(quad.height, Frac(1, H))))]

\* drawBackgroundWebGL: prepareImageTexture composites the image on a temporary canvas
\* of the surface's size and uploads that canvas as the texture; the texture is then
\* drawn on the quad (posX, posY)..(posX + imageCtxWidth, posY + imageCtxHeight)
BackgroundRectWebGL(iw, ih, W, H) ==
  QuadImage(LetterboxRect(iw, ih, W, H), LetterboxRect(iw, ih, W, H), W, H)

BackgroundInputs ==
  {FnCall("background", impl, <<iw, ih, W, H>>) :
     impl \in BackgroundImpls, iw \in PlacementImageDims, ih \in PlacementImageDims,
     W \in PlacementSurfaceDims, H \in PlacementSurfaceDims}

\* the background of one frame is drawn
ApplyBackground ==
  /\ FnReady("background")
  /\ LET a == fnIn[1].args IN
       fnOut' = Some(IF fnIn[1].impl = "webgl"
                       THEN BackgroundRectWebGL(a[1], a[2], a[3], a[4])
                       ELSE BackgroundRectCanvas2D(a[1], a[2], a[3], a[4]))
  /\ UNCHANGED fnIn

----------------------------------------------------------------------------
(* pages/index.tsx: the draw loop, playback and recording of the page *)

SourceKinds == {"buffer", "video"}

\* the arguments the Canvas Animation effect passes to drawBars / drawBarsWebGL;
\* analyserRef.current is set by the mount effect declared before it
PageParam == Param(page.canvas, page.imageCtx, page.mode, 1, page.adjustments)

\* useLayoutEffect on [canvasSize, rendererType]
CanvasSizeEffect == <<"clearImageCache", "clearWebGLImageCache">>

\* the Canvas Animation effect: its body and its cleanup
CanvasAnimationEffect == <<"stopCanvas2DAnimation", "stopWebGLAnimation", "draw">>
CanvasAnimationCleanup == <<"stopCanvas2DAnimation", "stopWebGLAnimation">>

\* a dependency of the Canvas Animation effect changed: cleanup of the previous run,
\* then the body
RerunCanvasAnimationNoStop == <<"draw">>
RerunCanvasAnimation == CanvasAnimationCleanup \o CanvasAnimationEffect

\* the calls onPlaySound (stop branch) and the video's onended handler make
StopBothLoops == <<"stopCanvas2DAnimation", "stopWebGLAnimation">>

\* new MediaRecorder(outputStream) after recorder.start()
NewRecorder == [state |-> "recording", stopCalls |-> 0, stopInactive |-> 0, stopEvent |-> FALSE]

\* recorder.stop(): a recording recorder becomes inactive and its stop event is queued
StoppedRecorder(r) ==
  IF r.state = "recording"
    THEN [r EXCEPT !.state = "inactive", !.stopCalls = @ + 1, !.stopEvent = TRUE]
    ELSE [r EXCEPT !.stopCalls = @ + 1, !.stopInactive = @ + 1]

\* an onended handler that stops the recorders of chain in turn (each recording wraps
\* the handler it finds); throws: stop() on an inactive recorder raises
\* InvalidStateError, which ends the handler
RECURSIVE StopAll(_, _, _)
StopAll(recs, chain, throws) ==
  IF chain = <<>> THEN recs
  ELSE LET k == Head(chain)
           after == [recs EXCEPT ![k] = StoppedRecorder(recs[k])]
       IN IF recs[k].state # "recording" /\ throws
            THEN after
            ELSE StopAll(after, Tail(chain), throws)

\* the source the play button drives: the video element, or the current
\* AudioBufferSourceNode; onended lists the recorders its onended handler stops
NoMedia == [state |-> "none", onended |-> <<>>]

\* the page as first rendered, with a source loaded and the mount effects to run
PageStart(kind) ==
  [canvas |-> 1, imageCtx |-> 0, mode |-> 0, adjustments |-> 1,
   todo |-> CanvasSizeEffect \o CanvasAnimationEffect,
   isPlaySound |-> FALSE, source |-> kind, media |-> NoMedia, orphans |-> {},
   recorders |-> <<>>, timers |-> 0, recordMovieDisabled |-> FALSE]

PageIdle == page = [PageStart("buffer") EXCEPT !.todo = <<>>]

PageInit ==
  /\ LoopInit /\ rendererType = "canvas2d" /\ canvasKind = [c \in Canvases |-> "none"]
  /\ page \in {PageStart(kind) : kind \in SourceKinds}

\* what a handler of the page leaves of the renderers
RenderersUntouched ==
  /\ lastOp' = [op |-> "page", paint |-> FALSE, idle |-> FALSE]
  /\ UNCHANGED <<now, rafQueue, nextRafId, canvasSize, glVars, c2dVars,
                 painted, glStopped, c2dStopped>>

\* the next call of the running handler or effect
RunStopCanvas2D ==
  /\ page.todo # <<>> /\ Head(page.todo) = "stopCanvas2DAnimation"
  /\ StopCanvas2DAnimation
  /\ page' = [page EXCEPT !.todo = Tail(@)]
  /\ UNCHANGED rendererType

RunStopWebGL ==
  /\ page.todo # <<>> /\ Head(page.todo) = "stopWebGLAnimation"
  /\ StopWebGLAnimation
  /\ page' = [page EXCEPT !.todo = Tail(@)]
  /\ UNCHANGED rendererType

RunClearImageCache ==
  /\ page.todo # <<>> /\ Head(page.todo) = "clearImageCache"
  /\ ClearImageCache
  /\ page' = [page EXCEPT !.todo = Tail(@)]
  /\ UNCHANGED rendererType

RunClearWebGLImageCache ==
  /\ page.todo # <<>> /\ Head(page.todo) = "clearWebGLImageCache"
  /\ ClearWebGLImageCache
  /\ page' = [page EXCEPT !.todo = Tail(@)]
  /\ UNCHANGED rendererType

RunDraw ==
  /\ page.todo # <<>> /\ Head(page.todo) = "draw"
  /\ IF rendererType = "webgl"
       THEN DrawBarsWebGL(PageParam, "ok")
       ELSE CallDrawBars(PageParam, TRUE)
  /\ page' = [page EXCEPT !.todo = Tail(@)]
  /\ UNCHANGED rendererType

\* an animation frame fires between two handlers
PageTickWebGL == page.todo = <<>> /\ TickWebGL /\ UNCHANGED <<page, rendererType>>
PageTickCanvas2D == page.todo = <<>> /\ TickCanvas2D(TRUE) /\ UNCHANGED <<page, rendererType>>

\* a handler that changes a dependency of the Canvas Animation effect may run: the
\* effect will start a loop
MayRerun == page.todo = <<>> /\ nextRafId <= MaxRaf

\* setImageCtx(image) with a newly loaded image
SetImageCtx(image) ==
  /\ MayRerun
  /\ image # 0 /\ image # page.imageCtx
  /\ page' = [page EXCEPT !.imageCtx = image, !.todo = RerunCanvasAnimation]
  /\ RenderersUntouched
  /\ UNCHANGED <<canvasKind, rendererType>>

\* onChangeMode: setMode (and the adjustments stored for the new mode)
SetMode(newMode) ==
  /\ MayRerun
  /\ newMode # page.mode
  /\ page' = [page EXCEPT !.mode = newMode, !.todo = RerunCanvasAnimation]
  /\ RenderersUntouched
  /\ UNCHANGED <<canvasKind, rendererType>>

\* handleAdjustmentChange: setModeAdjustments
SetModeAdjustments(adj) ==
  /\ MayRerun
  /\ adj # page.adjustments
  /\ page' = [page EXCEPT !.adjustments = adj, !.todo = RerunCanvasAnimation]
  /\ RenderersUntouched
  /\ UNCHANGED <<canvasKind, rendererType>>

\* canvas elements that are not the mounted one and that no renderer holds
FreshCanvases ==
  {c \in Canvases : c # page.canvas /\ (glContext = None \/ glContext[1].canvas # c)}

\* setRendererType: the canvas is keyed by rendererType, so a new canvas element is
\* mounted; the layout effect and the Canvas Animation effect run again
SetRendererType(type) ==
  /\ MayRerun
  /\ type # rendererType
  /\ rendererType' = type
  /\ \E c \in FreshCanvases :
       /\ canvasKind' = [canvasKind EXCEPT ![c] = "none"]
       /\ page' = [page EXCEPT !.canvas = c,
                               !.todo = CanvasSizeEffect \o RerunCanvasAnimation]
  /\ RenderersUntouched

\* setAudioBufferSourceNode and play() / start(0): the video is rewound and played; a
\* new AudioBufferSourceNode replaces the current one, which plays on if it was playing
StartedMedia(pg) ==
  IF pg.source = "video"
    THEN [pg EXCEPT !.media.state = "playing"]
    ELSE [pg EXCEPT !.media = [state |-> "playing", onended |-> <<>>],
                    !.orphans = IF pg.media.state \in {"playing", "stopping"}
                                  THEN @ \cup {pg.media.onended[i] : i \in 1..Len(pg.media.onended)}
                                  ELSE @]

\* onPlaySound
OnPlaySound ==
  /\ page.todo = <<>>
  /\ IF page.isPlaySound
       THEN page' = [page EXCEPT
                       !.media.state = IF @ # "playing" THEN @
                                       ELSE IF page.source = "video" THEN "paused"
                                       ELSE "stopping",
                       !.todo = StopBothLoops,
                       !.isPlaySound = FALSE]
       ELSE page' = [StartedMedia(page) EXCEPT !.isPlaySound = TRUE]
  /\ RenderersUntouched
  /\ UNCHANGED <<canvasKind, rendererType>>

\* onRecordMovie: the button is enabled while nothing plays; the work is done by a
\* timer 100 ms later
OnRecordMovie ==
  /\ page.todo = <<>>
  /\ ~page.recordMovieDisabled /\ ~page.isPlaySound
  /\ Len(page.recorders) + page.timers < MaxRecordings
  /\ page' = [page EXCEPT !.timers = @ + 1]
  /\ RenderersUntouched
  /\ UNCHANGED <<canvasKind, rendererType>>

\* the onended handler onRecordMovie installs for recorder k: on the video it wraps
\* the handler in place, on the AudioBufferSourceNode it is the only one
InstalledOnEnded(pg, k) ==
  IF pg.source = "video" THEN Append(pg.media.onended, k) ELSE <<k>>

\* the timer of onRecordMovie: recorder.start(), onPlaySound() as it was when the
\* button was pressed (isPlaySound false), setRecordMovieDisabled(true), onended
OnRecordMovieTimer ==
  /\ page.todo = <<>>
  /\ page.timers > 0
  /\ LET k == Len(page.recorders) + 1
         started == StartedMedia(page)
     IN page' = [started EXCEPT !.timers = @ - 1,
                                !.recorders = Append(@, NewRecorder),
                                !.isPlaySound = TRUE,
                                !.recordMovieDisabled = TRUE,
                                !.media.onended = InstalledOnEnded(started, k)]
  /\ RenderersUntouched
  /\ UNCHANGED <<canvasKind, rendererType>>

\* the source reaches its end, or the stopped AudioBufferSourceNode reports it: the
\* ended event runs the onended handler; the video's first handler is the one
\* audioLoad installed
MediaEnded(throws) ==
  /\ page.todo = <<>>
  /\ page.media.state \in {"playing", "stopping"}
  /\ \A i \in 1..Len(page.media.onended) :
       page.recorders[page.media.onended[i]].stopCalls < MaxRecordings
  /\ page' = [page EXCEPT
                !.media.state = "ended",
                !.recorders = StopAll(@, page.media.onended, throws),
                !.isPlaySound = IF page.source = "video" THEN FALSE ELSE @,
                !.todo = IF page.source = "video" THEN StopBothLoops ELSE @]
  /\ RenderersUntouched
  /\ UNCHANGED <<canvasKind, rendererType>>

\* an AudioBufferSourceNode that was replaced while it played reaches its end
OrphanEnded(k, throws) ==
  /\ page.todo = <<>>
  /\ k \in page.orphans
  /\ page' = [page EXCEPT !.orphans = @ \ {k},
                          !.recorders = StopAll(@, <<k>>, throws)]
  /\ RenderersUntouched
  /\ UNCHANGED <<canvasKind, rendererType>>

\* the stop listener of recorder k: the movie is converted and the record button is
\* enabled again; converted: generateMp4Video succeeds
RecorderStopListener(k, converted) ==
  /\ page.todo = <<>>
  /\ k \in 1..Len(page.recorders) /\ page.recorders[k].stopEvent
  /\ page' = [page EXCEPT !.recorders[k].stopEvent = FALSE,
                          !.recordMovieDisabled = IF converted THEN FALSE ELSE @]
  /\ RenderersUntouched
  /\ UNCHANGED <<canvasKind, rendererType>>

PageLoopNext ==
  \/ RunStopCanvas2D
  \/ RunStopWebGL
  \/ RunClearImageCache
  \/ RunClearWebGLImageCache
  \/ RunDraw
  \/ PageTickWebGL
  \/ PageTickCanvas2D
  \/ \E image \in Images : SetImageCtx(image)
  \/ \E newMode \in Modes : SetMode(newMode)
  \/ \E adj \in AdjustmentSet : SetModeAdjustments(adj)
  \/ \E type \in Backends : SetRendererType(type)
  \/ OnPlaySound
  \/ OnRecordMovie
  \/ OnRecordMovieTimer
  \/ \E throws \in BOOLEAN : MediaEnded(throws)
  \/ \E k \in 1..MaxRecordings, throws \in BOOLEAN : OrphanEnded(k, throws)
  \/ \E k \in 1..MaxRecordings, converted \in BOOLEAN : RecorderStopListener(k, converted)

----------------------------------------------------------------------------
(* WebCodecsVideoEncoder.encodeFrame: key frames and frameCount over a session *)

\* how one encodeFrame call on a configured encoder goes: the frame is submitted, new
\* VideoFrame throws, or encoder.encode throws
SubmissionOutcomes == {"ok", "frameThrows", "encodeThrows"}

\* { keyFrame: this.frameCount % 30 === 0 }
KeyFrameDueAfterCount(count) == (count + 1) % KeyFrameInterval = 0
KeyFrameDue(count) == count % KeyFrameInterval = 0

\* encodeFrame on the session st = [frameCount, keyFrames (the flags of the frames
\* submitted so far), counts (frameCount after each call)]
EncodeFrameStep(st, outcome) ==
  IF outcome = "ok"
    THEN [frameCount |-> st.frameCount + 1,
          keyFrames |-> Append(st.keyFrames, KeyFrameDue(st.frameCount)),
          counts |-> Append(st.counts, st.frameCount + 1)]
    ELSE [st EXCEPT !.counts = Append(@, st.frameCount)]

\* the session after the first n calls of outcomes, from a new object (frameCount = 0)
RECURSIVE EncodeFrames(_, _)
EncodeFrames(outcomes, n) ==
  IF n = 0 THEN [frameCount |-> 0, keyFrames |-> <<>>, counts |-> <<>>]
  ELSE EncodeFrameStep(EncodeFrames(outcomes, n - 1), outcomes[n])

\* n calls of which call p (if any) goes as outcome says and the others succeed
SubmissionRun(n, p, outcome) == [i \in 1..n |-> IF i = p THEN outcome ELSE "ok"]

KeyFrameInputs ==
  {FnCall("encodeFrame", "webcodecs", <<SubmissionRun(n, p, outcome)>>) :
     n \in 0..MaxSubmissions, p \in 0..MaxSubmissions, outcome \in SubmissionOutcomes}

\* the session's encodeFrame calls are made
ApplyEncodeFrames ==
  /\ FnReady("encodeFrame")
  /\ fnOut' = Some(EncodeFrames(fnIn[1].args[1], Len(fnIn[1].args[1])))
  /\ UNCHANGED fnIn

----------------------------------------------------------------------------
(* WebCodecsEncoder.ts: checkHardwareEncoderSupport and getBestEncodingMethod *)

ProbedCodecs == {"h264", "h265", "vp9", "av1"}

\* how VideoEncoder.isConfigSupported answers for one codec
ProbeResults == {"supported", "unsupported", "throws"}

\* isWebCodecsSupported(): VideoEncoder, VideoFrame and VideoDecoder are in window
IsWebCodecsSupported(env) == env[1] /\ env[2] /\ env[3]

\* the answers of isConfigSupported, by codec
ProbeOf(env) == [h264 |-> env[4], h265 |-> env[5], vp9 |-> env[6], av1 |-> env[7]]

\* the body of the loop of checkHardwareEncoderSupport: try { if (result.supported)
\* support[name] = true } catch { }
ProbeSupportedUnlessRejected(result) == result # "unsupported"
ProbeSupported(result) == result = "supported"

\* checkHardwareEncoderSupport()
CheckHardwareEncoderSupport(env) ==
  IF ~IsWebCodecsSupported(env)
    THEN [c \in ProbedCodecs |-> FALSE]
    ELSE [c \in ProbedCodecs |-> ProbeSupported(ProbeOf(env)[c])]

\* getBestEncodingMethod(): how its promise settles
GetBestEncodingMethod(env) ==
  IF ~IsWebCodecsSupported(env)
    THEN [state |-> "resolved", value |-> "mediarecorder"]
    ELSE IF CheckHardwareEncoderSupport(env)["h264"]
    THEN [state |-> "resolved", value |-> "webcodecs"]
    ELSE [state |-> "resolved", value |-> "mediarecorder"]

BestMethodInputs ==
  {FnCall("getBestEncodingMethod", "webcodecs", <<ve, vf, vd, p1, p2, p3, p4>>) :
     ve \in BOOLEAN, vf \in BOOLEAN, vd \in BOOLEAN,
     p1 \in ProbeResults, p2 \in ProbeResults, p3 \in ProbeResults, p4 \in ProbeResults}

\* the encoding method is chosen
ApplyBestMethod ==
  /\ FnReady("getBestEncodingMethod")
  /\ fnOut' = Some([method |-> GetBestEncodingMethod(fnIn[1].args),
                    support |-> CheckHardwareEncoderSupport(fnIn[1].args)])
  /\ UNCHANGED fnIn

----------------------------------------------------------------------------
(* WebGLRenderer.ts: the GPU objects of a context and the calls that delete them *)

\* the objects initWebGL and prepareImageTexture create for a context: two programs,
\* three buffers and, once an image was prepared, the image texture
GlResources(ctxOpt) ==
  IF ctxOpt = None THEN {}
  ELSE {"program", "textureProgram", "positionBuffer", "colorBuffer", "texCoordBuffer"}
         \cup (IF ctxOpt[1].imageTexture THEN {"imageTexture"} ELSE {})

\* cleanupWebGL: deleteProgram twice, deleteBuffer three times, deleteTexture if any
CleanupWebGLDeletes(ctxOpt) ==
  IF ctxOpt = None THEN {}
  ELSE {"program", "textureProgram", "positionBuffer", "colorBuffer", "texCoordBuffer"}
         \cup (IF ctxOpt[1].imageTexture THEN {"imageTexture"} ELSE {})

\* drawBarsWebGL, when the context is missing or belongs to another canvas:
\* glContext = initWebGL(canvas), with no delete call on the context it held
DrawBarsWebGLDeletes(ctxOpt) == {}

\* clearWebGLImageCache: deleteTexture if the context holds a texture
ClearWebGLImageCacheDeletes(ctxOpt) ==
  IF ctxOpt # None /\ ctxOpt[1].imageTexture THEN {"imageTexture"} ELSE {}

----------------------------------------------------------------------------
(* Canvas 2D drawBars: the save() and restore() calls of one tick *)

\* the two implementations of drawBars: the renderer in use and lib/Canvas.ts
StackImpls == {"part_001", "Canvas.ts"}

\* ctx.save() pushes the drawing state; ctx.restore() pops it and does nothing when
\* the stack is empty
StackAfter(depth, op) ==
  IF op = "save" THEN depth + 1 ELSE IF depth > 0 THEN depth - 1 ELSE 0

RECURSIVE StackDepthAfter(_, _)
StackDepthAfter(depth, ops) ==
  IF ops = <<>> THEN depth ELSE StackDepthAfter(StackAfter(depth, Head(ops)), Tail(ops))

\* the save / restore calls of the mode drawing: mode 5 mirrors its stroke between a
\* save and a restore, the other modes call neither
ModeStackOps(mode) == IF mode = 5 THEN <<"save", "restore">> ELSE <<>>

\* the save / restore calls of one run of drawBars, in order. Both implementations
\* return before any call when no 2D context is obtained, call save() once and return
\* when the analyser is absent, and otherwise call save() again for the adjustment
\* transform; at the end the renderer in use calls restore() twice, lib/Canvas.ts once
DrawBarsStackOps(impl, ctxOk, analyser, mode) ==
  IF ~ctxOk THEN <<>>
  ELSE IF analyser = 0 THEN <<"save">>
  ELSE <<"save", "save">> \o ModeStackOps(mode)
         \o (IF impl = "part_001" THEN <<"restore", "restore">> ELSE <<"restore">>)

\* args: getContext('2d') succeeds, imageCtx, mode, analyser, adjustments, and the
\* depth of the drawing-state stack on entry
StackInputs ==
  {FnCall("drawBarsStack", impl, <<ctxOk, image, mode, analyser, adj, depth>>) :
     impl \in StackImpls, ctxOk \in BOOLEAN, image \in 0..1, mode \in DrawModes,
     analyser \in 0..1, adj \in 0..1, depth \in 0..MaxStackDepth}

\* one tick of drawBars runs
ApplyDrawBarsStack ==
  /\ FnReady("drawBarsStack")
  /\ fnOut' = Some(StackDepthAfter(fnIn[1].args[6],
                     DrawBarsStackOps(fnIn[1].impl, fnIn[1].args[1],
                                      fnIn[1].args[4], fnIn[1].args[3])))
  /\ UNCHANGED fnIn

----------------------------------------------------------------------------
(* QuickVideoEncoder.ts: analyzeAudio and analyzeAudioRealtime *)

\* Math.ceil of the non-negative rational n / d
CeilDiv(n, d) == (n + d - 1) \div d

\* args of both functions: audioBuffer.duration as durNum / durDen seconds,
\* audioBuffer.sampleRate, audioBuffer.numberOfChannels, frameRate, fftSize, and
\* whether onProgress and onCancel are given (analyzeAudio takes no onCancel)
AnalysisInputs ==
  {FnCall(fn, "quick", <<durNum, durDen, 44100, 2, frameRate, 2048, onProgress, onCancel>>) :
     fn \in {"analyzeAudio", "analyzeAudioRealtime"},
     durNum \in 0..MaxDurationNum, durDen \in 1..2, frameRate \in 1..MaxFrameRate,
     onProgress \in BOOLEAN, onCancel \in BOOLEAN}

\* totalFrames = Math.ceil(duration * frameRate)
AnalysisTotalFrames(args) == CeilDiv(args[1] * args[5], args[2])

\* the state of one analysis: the promise, the buffers pushed so far (each named by
\* the frame it was captured at), currentFrame, whether a captureFrame callback is
\* scheduled, the calls made on the source and the context, and what the last
\* captureFrame run observed: onCancel() and the frame of the elapsed time
AnalysisStart ==
  [promise |-> PendingPromise, array |-> <<>>, frame |-> 0, scheduled |-> TRUE,
   stopCalls |-> 0, closeCalls |-> 0, settleCalls |-> 0,
   observed |-> FALSE, elapsed |-> 0]

\* analyzeAudio: one zero-filled buffer is pushed per frame index 0..totalFrames-1
RECURSIVE PlaceholderBuffers(_)
PlaceholderBuffers(n) == IF n = 0 THEN <<>> ELSE Append(PlaceholderBuffers(n - 1), n - 1)

AnalyzeAudio(args) ==
  [AnalysisStart EXCEPT
     !.array = PlaceholderBuffers(AnalysisTotalFrames(args)),
     !.promise = Resolve(PendingPromise, PlaceholderBuffers(AnalysisTotalFrames(args))),
     !.settleCalls = 1, !.scheduled = FALSE]

\* captureFrame: the cancellation check comes first, then the completion check
CaptureOutcomeCompletionFirst(cancelObserved, target, total) ==
  IF target >= total THEN "done" ELSE IF cancelObserved THEN "cancelled" ELSE "capture"
CaptureOutcome(cancelObserved, target, total) ==
  IF cancelObserved THEN "cancelled" ELSE IF target >= total THEN "done" ELSE "capture"

\* captureFrame, run when onCancel() answers cancelObserved and
\* Math.floor(elapsed / frameDuration) is target
CaptureFrame(st, total, cancelObserved, target) ==
  LET outcome == CaptureOutcome(cancelObserved, target, total)
      seen == [st EXCEPT !.observed = cancelObserved, !.elapsed = target]
  IN IF outcome = "cancelled"
       THEN [seen EXCEPT !.stopCalls = @ + 1, !.closeCalls = @ + 1,
                         !.promise = Reject(@, "Cancelled"),
                         !.settleCalls = @ + 1, !.scheduled = FALSE]
     ELSE IF outcome = "done"
       THEN [seen EXCEPT !.stopCalls = @ + 1, !.closeCalls = @ + 1,
                         !.promise = Resolve(@, st.array),
                         !.settleCalls = @ + 1, !.scheduled = FALSE]
     ELSE IF target >= st.frame
       THEN [seen EXCEPT !.array = Append(@, target), !.frame = target + 1]
     ELSE seen

\* analyzeAudio runs
ApplyAnalyzeAudio ==
  /\ FnReady("analyzeAudio")
  /\ fnOut' = Some(AnalyzeAudio(fnIn[1].args))
  /\ UNCHANGED fnIn

\* analyzeAudioRealtime is called: the source is started and the first captureFrame
\* callback requested
StartAnalyzeAudioRealtime ==
  /\ FnReady("analyzeAudioRealtime")
  /\ fnOut' = Some(AnalysisStart)
  /\ UNCHANGED fnIn

\* a scheduled captureFrame callback runs; the audio clock never goes back, and a
\* frame index at or beyond the end is kept as totalFrames
CaptureTick ==
  /\ fnIn # None /\ fnIn[1].fn = "analyzeAudioRealtime" /\ fnOut # None
  /\ fnOut[1].scheduled
  /\ LET total == AnalysisTotalFrames(fnIn[1].args) IN
     \E cancelObserved \in (IF fnIn[1].args[8] THEN BOOLEAN ELSE {FALSE}),
        target \in fnOut[1].elapsed..total :
       fnOut' = Some(CaptureFrame(fnOut[1], total, cancelObserved, target))
  /\ UNCHANGED fnIn

----------------------------------------------------------------------------
(* Specifications *)

vars == <<loopVars, rendererType, encVars, prepVars, fnVars, settings, page>>

\* no encode session in the runs of the draw loop
EncIdle == scenario = "none" /\ WcInit /\ wcSupported = TRUE /\ RecInit

\* what the draw-loop and encode-session runs leave untouched
\* the page is left as it is first rendered
UiIdle == settings = SettingsStart /\ PageIdle

auxVars == <<prepVars, fnVars, settings, page>>
AuxIdle == PrepIdle /\ FnIdle /\ UiIdle

\* one run drives the draw loop of the renderer the page has selected
Init == (GLInit \/ C2DInit) /\ EncIdle /\ AuxIdle

Next ==
  /\ UNCHANGED <<rendererType, encVars, auxVars>>
  /\ \/ rendererType = "webgl" /\ GLNext
     \/ rendererType = "canvas2d" /\ C2DNext
     \/ AdvanceTime

Spec == Init /\ [][Next]_vars

\* one run is one encode session: a WebCodecsVideoEncoder driven through its methods or
\* by encodeVideoWithAudio, a QuickVideoEncoder, or a recording of the page
EncInit ==
  /\ LoopInit /\ rendererType = "canvas2d" /\ canvasKind = [c \in Canvases |-> "none"]
  /\ scenario \in {"webcodecs", "encodeVideoWithAudio", "quick", "page"}
  /\ WcInit
  /\ RecInit
  /\ scenario \in {"quick", "page"} => wcSupported = TRUE
  /\ AuxIdle

EncNext ==
  /\ UNCHANGED <<loopVars, rendererType, scenario, auxVars>>
  /\ \/ ApiNext /\ UNCHANGED <<recVars, quickVars, pageVars>>
     \/ DrvNext /\ UNCHANGED <<recVars, quickVars, pageVars>>
     \/ QuickNext /\ UNCHANGED <<wcVars, drvVars>>
     \/ PageNext /\ UNCHANGED <<wcVars, drvVars>>

SpecEnc == EncInit /\ [][EncNext]_vars

\* one run prepares backgrounds with the cache of one backend
SpecCacheInit ==
  /\ CacheInit
  /\ EncIdle
  /\ FnIdle
  /\ UiIdle
  /\ \/ rendererType = "canvas2d"
     \/ rendererType = "webgl"

SpecCacheNext == CacheNext /\ UNCHANGED <<rendererType, encVars, fnVars, settings, page>>

SpecCache == SpecCacheInit /\ [][SpecCacheNext]_vars

\* one run applies one pure function to one input
FnInputs ==
  PlacementInputs \cup TransformInputs \cup DrawModeInputs \cup SymmetricBarInputs
    \cup BackgroundInputs \cup KeyFrameInputs \cup BestMethodInputs \cup StackInputs
    \cup AnalysisInputs

FnInit ==
  /\ LoopInit /\ rendererType = "canvas2d" /\ canvasKind = [c \in Canvases |-> "none"]
  /\ EncIdle
  /\ PrepIdle
  /\ UiIdle
  /\ fnIn \in {Some(call) : call \in FnInputs}
  /\ fnOut = None

FnNext ==
  /\ UNCHANGED <<loopVars, rendererType, encVars, prepVars, settings, page>>
  /\ \/ ApplyPlacement
     \/ ApplyTransforms
     \/ ApplyDrawMode
     \/ ApplySymmetricBar
     \/ ApplyBackground
     \/ ApplyEncodeFrames
     \/ ApplyBestMethod
     \/ ApplyDrawBarsStack
     \/ ApplyAnalyzeAudio
     \/ StartAnalyzeAudioRealtime
     \/ CaptureTick

SpecFn == FnInit /\ [][FnNext]_vars

\* one run changes the display adjustments, the mode and the resolution of the page
SpecSettingsInit ==
  /\ LoopInit /\ rendererType = "canvas2d" /\ canvasKind = [c \in Canvases |-> "none"]
  /\ EncIdle
  /\ PrepIdle
  /\ FnIdle
  /\ SettingsInit
  /\ PageIdle

SpecSettingsNext ==
  /\ UNCHANGED <<loopVars, rendererType, encVars, prepVars, fnVars, page>>
  /\ SettingsNext

SpecSettings == SpecSettingsInit /\ [][SpecSettingsNext]_vars

\* one run is a session of the page: renderer, image, mode and adjustment changes,
\* playback and recordings, with the draw loops they drive
SpecPageInit ==
  /\ PageInit
  /\ EncIdle
  /\ PrepIdle
  /\ FnIdle
  /\ settings = SettingsStart

SpecPageNext ==
  /\ UNCHANGED <<encVars, prepVars, fnVars, settings>>
  /\ PageLoopNext

SpecPage == SpecPageInit /\ [][SpecPageNext]_vars

----------------------------------------------------------------------------
(* Draw-loop claims *)

\* C1: WebGL loop is single-flight: at most one renderFrame callback is pending;
\* a drawBarsWebGL call made while the loop is running replaces only the stored
\* parameters and schedules nothing; a tick that paints paints with the stored
\* (latest) parameters.
C1_PendingAtMostOne == Cardinality(PendingOf("webgl")) <= 1

C1_ReentrantCallStep ==
  (lastOp'.op = "drawBarsWebGL" /\ isAnimating) =>
     /\ latest' \in Params
     /\ UNCHANGED <<rafQueue, nextRafId, glContext, glFpsVars, glAnimationFrameId,
                    isAnimating, painted, canvasKind>>

C1_TickStep ==
  (lastOp'.op = "tickWebGL") =>
     IF latest.analyser # 0 /\ glContext # None
       THEN lastOp'.paint /\ painted'.backend = "webgl" /\ painted'.params = latest
       ELSE ~lastOp'.paint /\ painted' = painted

C1_SingleFlight ==
  /\ []C1_PendingAtMostOne
  /\ [][C1_ReentrantCallStep /\ C1_TickStep]_vars

\* C1 witness: right after a drawBarsWebGL call made while the loop runs, with
\* values that differ from the ones last painted
C1_Witness ==
  /\ lastOp.op = "drawBarsWebGL" /\ ~lastOp.paint
  /\ isAnimating
  /\ Cardinality(PendingOf("webgl")) = 1
  /\ painted.backend = "webgl" /\ painted.params # latest

\* C2: Canvas 2D loop is single-flight: at most one drawBars callback is pending
\* after any sequence of drawBars calls, ticks and stopCanvas2DAnimation calls.
C2_Canvas2DSingleFlight == Cardinality(PendingOf("canvas2d")) <= 1

\* C3: after a stop call and until the next start call of that backend, no tick
\* of the backend is pending and none paints.
C3_StoppedMeansNoTick ==
  /\ glStopped => (PendingOf("webgl") = {} /\ lastOp.op # "tickWebGL")
  /\ c2dStopped => (PendingOf("canvas2d") = {} /\ lastOp.op # "tickCanvas2D")

\* C4: stop is idempotent: a stop call made while the loop is stopped leaves the
\* pending callbacks, the animating flag, the FPS state, the cache and the
\* context as they are, and after any stop call a further stop changes nothing.
C4_StopWhenStoppedStep ==
  /\ (lastOp'.op = "stopWebGLAnimation" /\ GLIdle) =>
        UNCHANGED <<rafQueue, isAnimating, glFpsVars, glContext, latest, c2dVars>>
  /\ (lastOp'.op = "stopCanvas2DAnimation" /\ C2DIdle) =>
        UNCHANGED <<rafQueue, c2dFpsVars, imageCache, glVars>>

C4_SecondStopIsNoOp ==
  /\ (lastOp.op = "stopWebGLAnimation") =>
        /\ ~isAnimating
        /\ StopWebGLAnimationId(glAnimationFrameId) = glAnimationFrameId
        /\ CancelAnimationFrame(rafQueue, glAnimationFrameId) = rafQueue
        /\ StopWebGLAnimationFps(<<glFpsCounter, glFpsLastTime, glCurrentFPS>>)
             = <<glFpsCounter, glFpsLastTime, glCurrentFPS>>
  /\ (lastOp.op = "stopCanvas2DAnimation") =>
        /\ animationFrameId = 0
        /\ CancelAnimationFrame(rafQueue, animationFrameId) = rafQueue

C4_StopIdempotent ==
  /\ []C4_SecondStopIsNoOp
  /\ [][C4_StopWhenStoppedStep]_vars

\* C4 witness: stopWebGLAnimation called on a loop that had stopped by itself
\* (analyser missing at a tick) with frames already counted
C4_Witness ==
  /\ lastOp.op = "stopWebGLAnimation" /\ lastOp.idle
  /\ glContext # None
  /\ glFpsCounter > 0

----------------------------------------------------------------------------
(* Encode sessions: properties *)

Settled(pr) == pr.state \in {"resolved", "rejected"}

\* C5 (as stated): once cancel() was called before the stop event was handled, the
\* promise of encodeWithCanvas2D is never resolved, and when it is settled it is
\* rejected with 'Cancelled'.
C5_CancelledRejectsWithCancelled ==
  (qCancelEarly /\ Settled(qPromise)) =>
     (qPromise.state = "rejected" /\ qPromise.err = "Cancelled")

\* C5 (amended): once cancel() was called before the stop event was handled, the
\* promise of encodeWithCanvas2D is never resolved with a Blob; when the stop event
\* has been handled it is rejected, with 'Cancelled' unless the recorder's error
\* event was handled first; a rejection without a stop event is the 2D-context
\* failure or the recorder's error.
C5_CancelledNeverResolves ==
  qCancelEarly =>
     /\ qPromise.state # "resolved"
     /\ qStopHandled =>
          /\ qPromise.state = "rejected"
          /\ \/ qPromise.err = "Cancelled"
             \/ qErrorHandled /\ qPromise.err = "RecorderError"
     /\ (qPromise.state = "rejected" /\ ~qStopHandled) =>
          \/ qPromise.err = "Failed to get 2D context" /\ mediaRecorder = 0
          \/ qErrorHandled /\ qPromise.err = "RecorderError"

\* a session cancelled between two frames, with a partial recording delivered, whose
\* stop event has been handled
C5_Witness ==
  /\ scenario = "quick"
  /\ qCancelEarly /\ qStopHandled
  /\ qDrawn # <<>> /\ currentFrame < qTotalFrames
  /\ recordedChunks # <<>>
  /\ qPromise.state = "rejected" /\ qPromise.err = "Cancelled"

OkCalls(fin) == {i \in CallIds : fin[i].st = "ok"}

\* C6, state part: a session (the encoder created by one init) never has two
\* finish() calls that both produced a Blob.
C6_OneResultPerSession ==
  \A i, j \in OkCalls(wcFinish) : wcFinish[i].epoch = wcFinish[j].epoch => i = j

\* C6, step part: a finish() that produced its Blob, or failed, keeps that outcome
\* whatever is called afterwards (finish again, cleanup, cancel), and a settled
\* encodeWithCanvas2D promise is never settled a second time.
C6_OutcomeIsFinalStep ==
  /\ \A i \in CallIds : wcFinish[i].st \in {"ok", "error"} => wcFinish'[i] = wcFinish[i]
  /\ Settled(qPromise) => qPromise' = qPromise

\* C6: an encode session completes at most once.
C6_SingleCompletion == []C6_OneResultPerSession /\ [][C6_OutcomeIsFinalStep]_vars

\* finish() was called twice on one session: the first produced the Blob, the second
\* failed, and the object was cleaned up afterwards
C6_Witness ==
  /\ scenario = "webcodecs"
  /\ \E i, j \in CallIds :
       /\ wcFinish[i].st = "ok" /\ wcFinish[i].blob # <<>>
       /\ wcFinish[j].st = "error" /\ wcFinish[j].epoch = wcFinish[i].epoch
  /\ encoder = 0

\* C7: when encodeVideoWithAudio rejects after init succeeded, no encoder handle is
\* left configured.
C7_NoConfiguredEncoderAfterError ==
  drvPc = "rejected" => \A h \in Handles : veState[h] # "configured"

\* C8: encodeVideoWithAudio never rejects with the unsupported-configuration error of
\* init().
C8_UnsupportedConfigDoesNotReject ==
  ~(drvPc = "rejected" /\ drvError = "Encoder configuration not supported")

\* C9: no VideoFrame constructed by encodeFrame is left open when encodeFrame has
\* returned or thrown.
C9_NoFrameLeftOpen == openFrames = 0

\* C10: the Blob of a completed session is the concatenation, in emission order, of
\* the segments emitted during the session: the chunks the output callback delivered
\* (finish), the dataavailable segments delivered up to the stop event
\* (encodeWithCanvas2D and the page's recorder).
C10_OutputIsEmittedSegments ==
  /\ \A i \in OkCalls(wcFinish) : wcFinish[i].blob = wcFinish[i].emitted
  /\ qPromise.state = "resolved" => qPromise.blob = BlobOf(recDelivered)
  /\ webmBlob # None => webmBlob[1] = BlobOf(recDelivered)

\* a finish() that produced a Blob of at least two chunks
C10_Witness ==
  \E i \in OkCalls(wcFinish) : Len(wcFinish[i].blob) >= 2 /\ wcFinish[i].blob = <<1, 2>>

----------------------------------------------------------------------------
(* Background cache: properties *)

SameInputs(a, b) == a.image = b.image /\ a.size = b.size

CacheKey(image) ==
  IF rendererType = "webgl" THEN <<image>>
  ELSE <<ImageSrc(image), ImageWidth(image), ImageHeight(image)>>

\* the preparation left its result in the cache
Kept(prep) == prep.work \/ prep.hit

----------------------------------------------------------------------------
(* Draw loops: failures *)

\* C13: when a start call could not create its drawing context (initWebGL returned
\* null in drawBarsWebGL, getContext('2d') returned null in drawBars), the loop is
\* left not running and no animation-frame callback of the backend is pending.
C13_NoTickAfterContextFailure ==
  /\ (lastOp.op = "drawBarsWebGL" /\ glContext = None) =>
        (~isAnimating /\ PendingOf("webgl") = {})
  /\ (lastOp.op = "drawBars" /\ ~lastOp.paint) => PendingOf("canvas2d") = {}

\* C14: a tick that finds the analyser absent paints nothing and leaves a next tick of
\* its loop pending (WebGL and Canvas 2D).
C14_SkippedTickReschedules ==
  /\ (lastOp.op = "tickWebGL" /\ latest.analyser = 0) =>
        (~lastOp.paint /\ PendingOf("webgl") # {})
  /\ (lastOp.op = "tickCanvas2D"
        /\ \E cb \in PendingOf("canvas2d") :
              cb.id = animationFrameId /\ cb.args[1].analyser = 0) =>
        ~lastOp.paint

\* C15: no tick ends by an exception that leaves the scheduled callback, and the loop
\* is never 'animating' with no tick pending.
C15_ThrowingTickKeepsLoopAlive ==
  /\ lastOp.op \notin {"tickWebGLThrew", "tickCanvas2DThrew"}
  /\ isAnimating => PendingOf("webgl") # {}

----------------------------------------------------------------------------
(* Pure functions: properties *)

Applied(fn) == fnIn # None /\ fnIn[1].fn = fn /\ fnOut # None

\* C16: every background placement is fit-inside and centred: width <= W, height <= H,
\* width = W or height = H, posX = (W - width) / 2 and posY = (H - height) / 2; a
\* 4000x2000 image on a 1080x1920 surface gets width 1080, height 540 and equal
\* non-zero top and bottom margins.
C16_PlacementFitsAndIsCentred ==
  Applied("placement") =>
    LET a == fnIn[1].args
        W == a[3]
        H == a[4]
        out == fnOut[1]
    IN /\ out.width <= W /\ out.height <= H
       /\ out.width = W \/ out.height = H
       /\ out.posX2 = W - out.width
       /\ out.posY2 = H - out.height
       /\ a = <<4000, 2000, 1080, 1920>> =>
            (out.width = 1080 /\ out.height = 540 /\ out.posY2 > 0)

\* the adjustment in force for the transform applied
AdjustmentApplied == AdjustmentOrDefault(fnIn[1].args[5])

C18_BackendsTransformAlike ==
  Applied("transform") =>
     LET a == fnIn[1].args
         adj == AdjustmentApplied
         expected ==
           <<FracAdd(FracAdd(FracMul(FracSub(a[1], Frac(a[3], 2)), adj.scaleX), Frac(a[3], 2)),
                     Frac(a[3] * adj.offsetX.num, 100 * adj.offsetX.den)),
             FracAdd(FracAdd(FracMul(FracSub(a[2], Frac(a[4], 2)), adj.scaleY), Frac(a[4], 2)),
                     Frac(a[4] * adj.offsetY.num, 100 * adj.offsetY.den))>>
     IN /\ PointEq(fnOut[1].webgl, fnOut[1].canvas2d)
        /\ PointEq(fnOut[1].webgl, expected)

\* a point transformed with a scale other than 1 and an offset other than 0 on both axes
C18_Witness ==
  /\ Applied("transform")
  /\ fnIn[1].args[5] # None
  /\ AdjustmentApplied.scaleX = FracOfInt(2) /\ AdjustmentApplied.scaleY = Frac(3, 2)
  /\ AdjustmentApplied.offsetX = FracOfInt(-150) /\ AdjustmentApplied.offsetY = FracOfInt(50)
  /\ ~PointEq(fnOut[1].webgl, <<fnIn[1].args[1], fnIn[1].args[2]>>)

\* C19: in each of the seven modes of both backends, for every sample buffer length,
\* every index at which the frame reads the sample buffer is >= 0 and < the length.
C19_SampleIndicesInRange ==
  Applied("drawMode") =>
    \A i \in fnOut[1].reads : i >= 0 /\ i < BufferLength(fnIn[1].args[2])

\* C20: the number of primitives issued for a frame depends only on the mode and the
\* buffer length, never on the sample values: any other buffer of the same length,
\* with samples of value 0 or not, gets as many draw calls in the same mode and backend.
C20_PrimitiveCountIgnoresSamples ==
  Applied("drawMode") =>
    \A other \in SampleBuffers :
       BufferLength(other) = BufferLength(fnIn[1].args[2]) =>
         DrawModePrimitives(fnIn[1].impl, fnIn[1].args[1], other) = fnOut[1].primitives

\* C21: in mode 3 with the identity adjustment and a sample of 255, for every surface
\* height H the bar spans vertically from 0 to H, split evenly above and below H/2,
\* in the WebGL, the Canvas 2D and the QuickVideoEncoder renderer.
C21_FullSampleSpansSurface ==
  (Applied("symmetricBar") /\ fnIn[1].args[1] = 255) =>
     LET H == FracOfInt(fnIn[1].args[2])
         centre == Frac(fnIn[1].args[2], 2)
     IN /\ FracEq(fnOut[1].top, FracOfInt(0))
        /\ FracEq(fnOut[1].bottom, H)
        /\ FracEq(FracSub(centre, fnOut[1].top), FracSub(fnOut[1].bottom, centre))

----------------------------------------------------------------------------
(* FPS reporting: properties *)

\* the step counts a frame of the window that started at lastTime: before the window
\* is 1000 ms old the counter grows by one and nothing else changes; from then on
\* the rate round(frames * 1000 / elapsed) is reported, the counter returns to 0 and
\* the window starts at the time of the frame
FrameCounted(counter, lastTime, fps, counterAfter, lastTimeAfter, fpsAfter) ==
  /\ lastOp'.paint
  /\ IF now - lastTime >= 1000
       THEN /\ fpsAfter = (2 * (counter + 1) * 1000 + (now - lastTime)) \div (2 * (now - lastTime))
            /\ counterAfter = 0
            /\ lastTimeAfter = now
       ELSE /\ fpsAfter = fps
            /\ counterAfter = counter + 1
            /\ lastTimeAfter = lastTime

\* the step resets the measurement: resetFPS, cleanupWebGL
FpsReset(counterAfter, lastTimeAfter, fpsAfter) ==
  /\ lastOp'.op \in {"resetFPS", "cleanupWebGL"}
  /\ fpsAfter = 0 /\ counterAfter = 0 /\ lastTimeAfter = now

\* C22, as stated: in both draw loops the reported FPS changes only on a frame at
\* which at least 1000 ms have elapsed since the previous report; on that frame it
\* becomes round(ticks * 1000 / elapsed), the counter resets to 0 and the window
\* start moves to the time of the frame.
C22_FpsChangesOnlyOnReport ==
  [][/\ glCurrentFPS' # glCurrentFPS
          => /\ now - glFpsLastTime >= 1000
             /\ FrameCounted(glFpsCounter, glFpsLastTime, glCurrentFPS,
                             glFpsCounter', glFpsLastTime', glCurrentFPS')
     /\ currentFPS' # currentFPS
          => /\ now - fpsLastTime >= 1000
             /\ FrameCounted(fpsCounter, fpsLastTime, currentFPS,
                             fpsCounter', fpsLastTime', currentFPS')]_vars

\* C22, amended: the FPS, the tick counter and the window start change only on a
\* frame, as stated, or when resetFPS or cleanupWebGL sets the FPS and the counter to 0
\* and restarts the window outside any frame.
C22_FpsChangesOnReportOrReset ==
  [][/\ <<glFpsCounter, glFpsLastTime, glCurrentFPS>>' # <<glFpsCounter, glFpsLastTime, glCurrentFPS>>
          => \/ FrameCounted(glFpsCounter, glFpsLastTime, glCurrentFPS,
                             glFpsCounter', glFpsLastTime', glCurrentFPS')
             \/ FpsReset(glFpsCounter', glFpsLastTime', glCurrentFPS')
     /\ <<fpsCounter, fpsLastTime, currentFPS>>' # <<fpsCounter, fpsLastTime, currentFPS>>
          => \/ FrameCounted(fpsCounter, fpsLastTime, currentFPS,
                             fpsCounter', fpsLastTime', currentFPS')
             \/ FpsReset(fpsCounter', fpsLastTime', currentFPS')]_vars

\* two frames of the WebGL loop in a window of at least 1000 ms have just been reported
C22_Witness ==
  /\ lastOp.paint /\ painted.backend = "webgl"
  /\ now >= 1000 /\ glFpsLastTime = now
  /\ glCurrentFPS = 2 /\ glFpsCounter = 0

----------------------------------------------------------------------------
(* WebGL context and canvas: properties *)

\* C24: whenever a WebGL frame paints, the GL context it paints with was created on the
\* canvas most recently passed to drawBarsWebGL, also when that call arrived while
\* the loop was running.
C24_PaintsWithContextOfLatestCanvas ==
  painted.backend = "webgl" => painted.ctxCanvas = painted.params.canvas

----------------------------------------------------------------------------
(* Progress events: properties *)

\* the output callback has just delivered a chunk; handleEncodedChunk reports
\* progress (frameCount / totalFrames) * 100 when totalFrames > 0
ChunkProgressReported == Len(wcEmitted') = Len(wcEmitted) + 1 /\ totalFrames > 0

\* renderNextFrame has just drawn frame currentFrame and reported
\* (currentFrame / totalFrames) * 100
FrameProgressReported == qDrawn' # qDrawn

\* C25: every progress event emitted during encoding has 0 <= progress <= 100: the events
\* of WebCodecsVideoEncoder (frameCount / totalFrames * 100) over any sequence of
\* setTotalFrames, encodeFrame and chunk-output events, and those of
\* QuickVideoEncoder.encodeWithCanvas2D.
C25_ProgressWithinBounds ==
  [][/\ ChunkProgressReported =>
          (0 <= frameCount * 100 /\ frameCount * 100 <= 100 * totalFrames)
     /\ FrameProgressReported =>
          (0 <= currentFrame * 100 /\ currentFrame * 100 <= 100 * qTotalFrames)]_vars

----------------------------------------------------------------------------
(* Per-combination settings: properties *)

CurrentKey == GetSettingsKey(settings.mode, settings.size)

----------------------------------------------------------------------------
(* Background image: properties *)

\* C27: in both backends the background image finally occupies exactly the letterboxed
\* rectangle computed for (image, surface): the placement is applied once, so the
\* WebGL backend shows the image where the Canvas 2D backend shows it.
C27_BackgroundOccupiesLetterbox ==
  Applied("background") =>
    LET a == fnIn[1].args
    IN fnOut[1] = LetterboxRect(a[1], a[2], a[3], a[4])

----------------------------------------------------------------------------
(* QuickVideoEncoder: stopping the recorder *)

\* the host reported a recording error in this session
RecorderFailed ==
  qErrorHandled \/ \E i \in 1..Len(recQueue) : recQueue[i].type = "error"

\* C28: in every encodeWithCanvas2D session whose recorder does not fail,
\* MediaRecorder.stop() is never invoked on an inactive recorder and never more than
\* once, and once no frame or finalization timer is pending it has been invoked
\* exactly once, whenever cancel() was called.
C28_RecorderStoppedExactlyOnce ==
  (scenario = "quick" /\ ~RecorderFailed) =>
     /\ recStopInactive = 0
     /\ recStopCalls <= 1
     /\ (mediaRecorder # 0 /\ qTimer = "none") => recStopCalls = 1

----------------------------------------------------------------------------
(* The page: draw loop, playback and recording properties *)

\* the renderer the page has not selected
OtherRenderer == IF rendererType = "webgl" THEN "canvas2d" ELSE "webgl"

\* C23: after any sequence of image, mode, adjustment and renderer-type changes (and
\* of playback starts and stops) at most one animation-frame callback is pending, and
\* it belongs to the loop of the selected renderer; while the effects of a change run,
\* the two loops never have a callback pending at the same time: the old loop is
\* stopped before the new one is started.
C23_OnlySelectedLoopRuns ==
  /\ ~(PendingOf("webgl") # {} /\ PendingOf("canvas2d") # {})
  /\ page.todo = <<>> =>
       /\ Cardinality(rafQueue) <= 1
       /\ PendingOf(OtherRenderer) = {}

\* the Canvas 2D loop has painted, the mode was changed, the renderer was switched to
\* WebGL, and a tick of the WebGL loop has painted and left the next one pending
C23_Witness ==
  /\ page.todo = <<>>
  /\ rendererType = "webgl" /\ page.mode = 3
  /\ \E c \in Canvases : canvasKind[c] = "2d"
  /\ lastOp.op = "tickWebGL" /\ lastOp.paint
  /\ PendingOf("webgl") # {} /\ PendingOf("canvas2d") = {}

\* C29: no recorder of onRecordMovie gets stop() while it is inactive or more than
\* once, and when the source has played to its end (no replaced node still playing, no
\* recording timer pending) every recorder started has been stopped, also for the
\* second recording from the same source.
C29_EveryRecordingStopsOnce ==
  \A k \in 1..Len(page.recorders) :
    /\ page.recorders[k].stopInactive = 0
    /\ page.recorders[k].stopCalls <= 1
    /\ (page.media.state = "ended" /\ page.orphans = {} /\ page.timers = 0)
         => page.recorders[k].state = "inactive"

\* C30: whenever the source is playing, for preview or for a recording, and no handler
\* of the page is running, a tick of the selected renderer's loop is pending.
C30_LoopRunsWhilePlaying ==
  (page.todo = <<>> /\ page.media.state = "playing") => PendingOf(rendererType) # {}

----------------------------------------------------------------------------
(* QuickVideoEncoder: order of the frames *)

\* the frames 0, 1, ..., n - 1 in index order
FirstFrames(n) == [i \in 1..n |-> i - 1]

\* C31: encodeWithCanvas2D draws the frames in index order 0, 1, ..., each once and
\* at most one per run of renderNextFrame; 'finalizing' is emitted (the finalization
\* timer is set) only when all totalFrames frames are drawn, once, and without a
\* cancellation the recorder is asked to stop only after that; once cancel() was
\* called no frame is drawn.
C31_FramesDrawnInOrder ==
  /\ [](scenario = "quick" =>
          /\ qDrawn = FirstFrames(Len(qDrawn))
          /\ Len(qDrawn) <= qTotalFrames
          /\ qTimer = "final" => Len(qDrawn) = qTotalFrames
          /\ (recStopCalls > 0 /\ ~cancelled) => (Len(qDrawn) = qTotalFrames /\ qTimer = "none"))
  /\ [][scenario = "quick" =>
          /\ qDrawn' # qDrawn => (qDrawn' = Append(qDrawn, Len(qDrawn)) /\ ~cancelled)
          /\ qTimer = "final" => qTimer' \in {"final", "none"}
          /\ (qTimer = "none" /\ qPc = "called") => qTimer' = "none"]_vars

\* a session of MaxFrames frames has drawn them all and stopped its recorder
C31_Witness ==
  /\ scenario = "quick" /\ ~cancelled
  /\ qTotalFrames = MaxFrames /\ qDrawn = FirstFrames(MaxFrames)
  /\ qTimer = "none" /\ recStopCalls = 1 /\ recState = "inactive"

----------------------------------------------------------------------------
(* WebCodecsVideoEncoder.encodeFrame: properties *)

\* C32: the k-th frame submitted in a session (k from 0) is flagged as a key frame
\* exactly when k mod 30 = 0; frameCount grows by one with each submission and is left
\* unchanged by a call that throws.
C32_KeyFrameEveryThirtieth ==
  Applied("encodeFrame") =>
    LET outcomes == fnIn[1].args[1]
        out == fnOut[1]
        before(i) == IF i = 1 THEN 0 ELSE out.counts[i - 1]
    IN /\ \A k \in 1..Len(out.keyFrames) : out.keyFrames[k] <=> ((k - 1) % 30 = 0)
       /\ Len(out.counts) = Len(outcomes)
       /\ \A i \in 1..Len(outcomes) :
            out.counts[i] = before(i) + (IF outcomes[i] = "ok" THEN 1 ELSE 0)
       /\ out.frameCount = Len(out.keyFrames)

\* a session in which one call threw and frame 30 was submitted as the second key frame
C32_Witness ==
  /\ Applied("encodeFrame")
  /\ \E i \in 1..Len(fnIn[1].args[1]) : fnIn[1].args[1][i] = "encodeThrows"
  /\ Len(fnOut[1].keyFrames) = 31
  /\ fnOut[1].keyFrames[1] /\ ~fnOut[1].keyFrames[30] /\ fnOut[1].keyFrames[31]

----------------------------------------------------------------------------
(* getBestEncodingMethod: properties *)

\* C33: getBestEncodingMethod resolves with 'webcodecs' exactly when WebCodecs is
\* available and the H.264 probe reports supported, and with 'mediarecorder' in every
\* other case; it never rejects; a probe that throws marks only its own codec
\* unsupported.
C33_WebCodecsOnlyWithH264 ==
  Applied("getBestEncodingMethod") =>
    LET env == fnIn[1].args
        available == env[1] /\ env[2] /\ env[3]
        out == fnOut[1]
    IN /\ out.method.state = "resolved"
       /\ out.method.value = IF available /\ env[4] = "supported"
                               THEN "webcodecs" ELSE "mediarecorder"
       /\ available =>
            /\ out.support["h264"] = (env[4] = "supported")
            /\ out.support["h265"] = (env[5] = "supported")
            /\ out.support["vp9"] = (env[6] = "supported")
            /\ out.support["av1"] = (env[7] = "supported")

\* the H.264 probe threw while the VP9 probe reported supported: MediaRecorder is chosen
C33_Witness ==
  /\ Applied("getBestEncodingMethod")
  /\ IsWebCodecsSupported(fnIn[1].args)
  /\ fnIn[1].args[4] = "throws" /\ fnIn[1].args[6] = "supported"
  /\ fnOut[1].method.value = "mediarecorder"
  /\ fnOut[1].support["vp9"] /\ ~fnOut[1].support["h264"]

\* an encodeFrame call made while the object holds no encoder
EncodeFrameWithoutEncoder == encoder = 0 /\ wcSubmitted' = wcSubmitted + 1

\* the finish() call number i, made while the object holds no encoder
FinishWithoutEncoder(i) == encoder = 0 /\ wcFinish[i].st = "none" /\ wcFinish'[i].st # "none"

\* an init() that rejects in this step
InitRejects == wcLast' # wcLast /\ wcLast'.op = "init" /\ wcLast'.err \notin {"", "pending"}

\* C34: encodeFrame and finish called while the object holds no encoder (before a
\* successful init, after an init that rejected, after cleanup) fail with 'Encoder not
\* initialized' and change nothing: no frame object is created, frameCount and chunks
\* are as before; an init that rejects creates no encoder handle and stores none.
C34_NoEncoderStep ==
  /\ EncodeFrameWithoutEncoder =>
       /\ wcLast' = [op |-> "encodeFrame", err |-> "Encoder not initialized"]
       /\ UNCHANGED <<encoder, veState, vePending, veEmitted, chunks, frameCount,
                      totalFrames, openFrames, wcFinish>>
  /\ \A i \in CallIds : FinishWithoutEncoder(i) =>
       /\ wcFinish'[i].st = "error" /\ wcFinish'[i].err = "Encoder not initialized"
       /\ UNCHANGED <<encoder, veState, vePending, veEmitted, chunks, frameCount,
                      totalFrames, openFrames, wcSubmitted>>
  /\ InitRejects =>
       UNCHANGED <<encoder, veState, vePending, chunks, frameCount, openFrames>>

C34_FailsWithoutEncoder == [][C34_NoEncoderStep]_vars

\* after a session that was cleaned up, encodeFrame and finish were called and failed
\* with 'Encoder not initialized'
C34_Witness ==
  /\ scenario = "webcodecs"
  /\ encoder = 0
  /\ \E h \in Handles : veState[h] = "closed"
  /\ wcLast = [op |-> "encodeFrame", err |-> "Encoder not initialized"]
  /\ \E i \in CallIds : wcFinish[i].st = "error" /\ wcFinish[i].err = "Encoder not initialized"
                        /\ wcFinish[i].epoch > 0

\* cleanup() on an object that holds an encoder has returned in this step
CleanupReturned == encoder # 0 /\ encoder' = 0

\* C35: when cleanup() has returned, every VideoEncoder handle that init created is
\* closed, whatever init, encodeFrame, finish and cleanup calls came before.
C35_AllClosedAfterCleanupStep ==
  CleanupReturned => \A h \in Handles : veState'[h] # "configured"

C35_HandlesClosedByCleanup == [][C35_AllClosedAfterCleanupStep]_vars

\* drawBarsWebGL has dropped the context of another canvas in this step
ContextReplaced ==
  /\ lastOp'.op = "drawBarsWebGL"
  /\ glContext # None
  /\ glContext' = None \/ glContext'[1].canvas # glContext[1].canvas

\* C36: at most one set of WebGL resources is alive: when drawBarsWebGL replaces the
\* context because the canvas changed, the programs, buffers and texture of the
\* previous context are deleted; cleanupWebGL deletes those of the current context,
\* leaves no context and resets the FPS state.
C36_ResourcesReleasedStep ==
  /\ ContextReplaced => GlResources(glContext) \subseteq DrawBarsWebGLDeletes(glContext)
  /\ lastOp'.op = "cleanupWebGL" /\ lastOp' # lastOp =>
       /\ GlResources(glContext) \subseteq CleanupWebGLDeletes(glContext)
       /\ glContext' = None
       /\ glFpsCounter' = 0 /\ glCurrentFPS' = 0 /\ glFpsLastTime' = now

C36_OneResourceSetAlive == [][C36_ResourcesReleasedStep]_vars

\* the WebGL backend has painted a frame in this step
PaintedByWebGL == lastOp'.paint /\ lastOp'.op \in {"drawBarsWebGL", "tickWebGL"}

\* C37, state part: while there is no context (before the first start, after
\* cleanupWebGL) no WebGL tick is pending, and the image texture handle of the context
\* never refers to a deleted texture.
C37_NoReleasedResourceHeld ==
  /\ glContext = None => PendingOf("webgl") = {}
  /\ glContext # None => (glContext[1].imageTexture <=> glContext[1].texture # None)

\* C37, step part: a frame is painted with a context that exists, and a frame with a
\* background image is painted with a live texture that holds this image at the size
\* of the canvas (after clearWebGLImageCache: a texture built in this frame).
C37_PaintsWithLiveResourcesStep ==
  PaintedByWebGL =>
    /\ glContext' # None
    /\ painted'.params.imageCtx # 0 =>
         /\ glContext'[1].imageTexture
         /\ glContext'[1].texture =
              Some(Composite(painted'.params.imageCtx, canvasSize[painted'.params.canvas]))
         /\ (glContext # None /\ ~glContext[1].imageTexture) =>
              ClearWebGLImageCacheDeletes(glContext') = {"imageTexture"}

C38_StackDepthRestored ==
  Applied("drawBarsStack") => fnOut[1] = fnIn[1].args[6]

\* the frames 0 .. n-1, one entry each, in order
OnePerFrame(array, n) == Len(array) = n /\ \A k \in 1..n : array[k] = k - 1

\* C39: the analysis returns one sample buffer per output frame: frequencyDataArray
\* has length ceil(duration * frameRate) and entry k was captured for frame k, for
\* analyzeAudio and for analyzeAudioRealtime, however rarely the animation-frame
\* callbacks arrive.
C39_OneBufferPerFrame ==
  (Applied("analyzeAudio") \/ Applied("analyzeAudioRealtime")) =>
    (fnOut[1].promise.state = "resolved" =>
       OnePerFrame(fnOut[1].promise.blob, AnalysisTotalFrames(fnIn[1].args)))

\* C40, state part: when a captureFrame run has observed onCancel() = true, the source
\* was stopped, the context closed, the promise is rejected with 'Cancelled' - also
\* when the elapsed time had reached the end on that run - and no callback is
\* scheduled; resolve / reject was called at most once.
C40_CancelledState ==
  Applied("analyzeAudioRealtime") =>
    LET st == fnOut[1] IN
    /\ st.settleCalls <= 1
    /\ Settled(st.promise) <=> st.settleCalls = 1
    /\ Settled(st.promise) => ~st.scheduled
    /\ st.observed =>
         /\ st.promise.state = "rejected" /\ st.promise.err = "Cancelled"
         /\ st.stopCalls = 1 /\ st.closeCalls = 1
         /\ ~st.scheduled

\* C40, step part: once the promise is settled no captureFrame run follows.
C40_NoTickAfterSettleStep ==
  (Applied("analyzeAudioRealtime") /\ Settled(fnOut[1].promise)) => fnOut' = fnOut

\* C40: cancellation of analyzeAudioRealtime.
C40_CancelRejectsOnce == []C40_CancelledState /\ [][C40_NoTickAfterSettleStep]_vars

\* after at least one captured frame, the run that found the elapsed time at the end
\* also observed the cancellation: the promise is rejected
C40_Witness ==
  /\ Applied("analyzeAudioRealtime")
  /\ fnOut[1].observed
  /\ fnOut[1].elapsed = AnalysisTotalFrames(fnIn[1].args)
  /\ fnOut[1].array # <<>>
  /\ fnOut[1].promise.state = "rejected"

====
